---- MODULE Spec2Model ----
(***************************************************************************)
(* Mysterium Network: the client-side storage pipeline (upload.js,         *)
(* download.js, utils.js, reed-solomon.js) and the fragment service of a   *)
(* storage node (storage-node.js).                                         *)
(*                                                                         *)
(* Buffers are sequences of bytes (0..255).  Opaque random material        *)
(* (32-byte keys, IVs, salts) is a fresh natural number per call of        *)
(* crypto.randomBytes; PBKDF2 and SHA-256 are ideal (injective) functions; *)
(* AES-256-GCM is a keystream XOR with a tag bound to key, IV and          *)
(* ciphertext.                                                             *)
(***************************************************************************)
EXTENDS Integers, Sequences, FiniteSets, TLC

(***************************************************************************)
(* Bounds of the model.                                                    *)
(***************************************************************************)
\* longest plaintext file, in bytes
MaxLen == 3
\* largest value of the partitions option
MaxD == 3
\* largest value of the redundancy option
MaxR == 2
\* longest buffer handed to the codec in the codec-level specification
RsMaxLen == 3
\* largest number of data shards in the codec-level specification
RsMaxD == 3
\* largest number of parity shards in the codec-level specification
RsMaxP == 2
\* most failed /store attempts in one upload
MaxFailures == 3

\* longest buffer handed to splitFile on its own
SplitMaxLen == 12
\* largest partition count handed to splitFile on its own
SplitMaxN == 5

\* byte values the plaintext is drawn from
ByteVals == {0, 1}
\* byte values the codec-level buffers are drawn from
RsByteVals == {0, 1, 142}

\* JavaScript null where a number or a string is expected
Null == -1
\* JavaScript null where a Buffer is expected (no byte is -1)
NullBuf == <<-1>>

(***************************************************************************)
(* Bytes.                                                                  *)
(***************************************************************************)
Bit(a, k) == (a \div (2 ^ k)) % 2

\* JavaScript a ^ b on values below 2^9
Xor(a, b) ==
    LET x(k) == ((Bit(a, k) + Bit(b, k)) % 2) * (2 ^ k)
    IN  x(0) + x(1) + x(2) + x(3) + x(4) + x(5) + x(6) + x(7) + x(8)

Min(a, b) == IF a < b THEN a ELSE b
Max(a, b) == IF a < b THEN b ELSE a

\* Math.ceil(a / b) for b > 0; a / 0 is Infinity or NaN and never reached
CeilDiv(a, b) == (a + b - 1) \div b

\* the sequences over S of length at most n
RECURSIVE SeqsUpTo(_, _)
SeqsUpTo(S, n) ==
    IF n = 0 THEN {<<>>}
    ELSE LET shorter == SeqsUpTo(S, n - 1)
         IN  shorter \cup {Append(t, b) : t \in {u \in shorter : Len(u) = n - 1}, b \in S}

\* Buffer.concat of a sequence of buffers
RECURSIVE BufferConcat(_)
BufferConcat(list) ==
    IF list = <<>> THEN <<>> ELSE Head(list) \o BufferConcat(Tail(list))

IsNull(x) == x = NullBuf

\* Array.prototype.filter(p => p !== null) on an array of buffers
RECURSIVE FilterNonNull(_)
FilterNonNull(list) ==
    IF list = <<>> THEN <<>>
    ELSE IF IsNull(Head(list)) THEN FilterNonNull(Tail(list))
         ELSE <<Head(list)>> \o FilterNonNull(Tail(list))

(***************************************************************************)
(* GF(2^8) arithmetic (reed-solomon.js).                                   *)
(***************************************************************************)
GF_SIZE == 256
PRIMITIVE_POLYNOMIAL == 285

\* one step of the table loop: x <<= 1, reduced by the primitive polynomial
NextPower(x) ==
    LET y == x * 2
    IN  IF y >= GF_SIZE THEN Xor(y, PRIMITIVE_POLYNOMIAL) % GF_SIZE ELSE y

\* x after n more iterations of the first loop of initializeTables
RECURSIVE Iterate(_, _)
Iterate(x, n) == IF n = 0 THEN x ELSE NextPower(Iterate(x, n - 1))

\* the values of x at iterations 0, 16, 32, ... of that loop
RECURSIVE Anchors(_)
Anchors(q) ==
    IF q = 1 THEN <<1>>
    ELSE LET s == Anchors(q - 1) IN Append(s, Iterate(s[q - 1], 16))

\* the exp table, indexed from 0: expTable[i] is ExpSeq[i + 1].  The first
\* loop fills entries 0..254, the second copies entry i - 255 into i for
\* i = 255..511.
ExpSeq ==
    LET anchors == Anchors(16)
        first == [k \in 1..(GF_SIZE - 1) |->
                    Iterate(anchors[((k - 1) \div 16) + 1], (k - 1) % 16)]
    IN  [k \in 1..(GF_SIZE * 2) |->
            IF k <= GF_SIZE - 1 THEN first[k]
            ELSE IF k - (GF_SIZE - 1) <= GF_SIZE - 1 THEN first[k - (GF_SIZE - 1)]
            ELSE first[k - 2 * (GF_SIZE - 1)]]

expTable(i) == ExpSeq[i + 1]

\* the log table: logTable[x] = i for expTable[i] = x, i < 255; logTable[0]
\* is never written and stays 0
LogFn ==
    [x \in 0..(GF_SIZE - 1) |->
        IF x = 0 THEN 0
        ELSE CHOOSE i \in 0..(GF_SIZE - 2) : ExpSeq[i + 1] = x]

logTable(v) == LogFn[v]

\* a multiply without the test for 0
multiplyThroughTables(a, b) == expTable(logTable(a) + logTable(b))

multiply(a, b) ==
    IF a = 0 \/ b = 0 THEN 0
    ELSE expTable(logTable(a) + logTable(b))

\* divide throws on b = 0 (with a # 0); callers in the model never pass b = 0
divide(a, b) ==
    IF a = 0 THEN 0
    ELSE expTable(logTable(a) - logTable(b) + (GF_SIZE - 1))

\* a coefficient taken from the indices as they are, without the + 1
getCoefficientFromZero(parityIndex, dataIndex) ==
    expTable((parityIndex * dataIndex) % (GF_SIZE - 1))

getCoefficient(parityIndex, dataIndex) ==
    expTable(((parityIndex + 1) * (dataIndex + 1)) % (GF_SIZE - 1))

(***************************************************************************)
(* Reed-Solomon encode and decode (reed-solomon.js).  Shard arrays are     *)
(* sequences indexed from 1: shard index i of the code is position i + 1.  *)
(***************************************************************************)
\* data shard i: bytes [i*shardSize, min(i*shardSize + shardSize, length))
\* copied into a zero-filled buffer of shardSize bytes
DataShard(data, i, shardSize) ==
    LET start == i * shardSize
        end == Min(start + shardSize, Len(data))
    IN  [k \in 1..shardSize |->
            IF start + k <= end THEN data[start + k] ELSE 0]

\* XOR over data shards j = 0..n-1 of multiply(shards[j][i], coefficient)
RECURSIVE ParityByte(_, _, _, _)
ParityByte(shards, p, i, n) ==
    IF n = 0 THEN 0
    ELSE Xor(ParityByte(shards, p, i, n - 1),
             multiply(shards[n][i], getCoefficient(p, n - 1)))

encode(data, dataShards, parityShards) ==
    LET shardSize == CeilDiv(Len(data), dataShards)
        shards == [j \in 1..dataShards |-> DataShard(data, j - 1, shardSize)]
    IN  [j \in 1..(dataShards + parityShards) |->
            IF j <= dataShards THEN shards[j]
            ELSE [i \in 1..shardSize |->
                    ParityByte(shards, j - dataShards - 1, i, dataShards)]]

\* data.copy(shard, 0, start, end) throws a RangeError (ERR_OUT_OF_RANGE)
\* when start is above data.length, on the Node.js versions the README asks
\* for (14 and later): encode throws when some data shard starts past the
\* end of the input
encodeThrows(data, dataShards, parityShards) ==
    LET shardSize == CeilDiv(Len(data), dataShards)
    IN  \E i \in 0..(dataShards - 1) : i * shardSize > Len(data)

\* the first loop of decode from position j on: the indices (from 1) of the
\* non-null entries, ascending
RECURSIVE NonNullFrom(_, _)
NonNullFrom(shards, j) ==
    IF j > Len(shards) THEN <<>>
    ELSE IF IsNull(shards[j]) THEN NonNullFrom(shards, j + 1)
         ELSE <<j>> \o NonNullFrom(shards, j + 1)

AvailableShards(shards) == NonNullFrom(shards, 1)

MissingIndices(shards, dataShards) ==
    {j \in 1..Min(Len(shards), dataShards) : IsNull(shards[j])}

\* the while loop of decode: skip entries that are data shards other than i.
\* Reading past the end of availableShards is a TypeError; the guard
\* availableShards.length >= dataShards with a missing data shard leaves at
\* least one parity entry, at which the loop stops.
RECURSIVE SkipData(_, _, _, _)
SkipData(avail, availableIndex, i, dataShards) ==
    IF availableIndex > Len(avail) THEN availableIndex
    ELSE IF avail[availableIndex] <= dataShards /\ avail[availableIndex] # i
         THEN SkipData(avail, availableIndex + 1, i, dataShards)
         ELSE availableIndex

\* the recovery loop of decode, from data shard i (from 1) on
RECURSIVE Recover(_, _, _, _, _)
Recover(shards, avail, availableIndex, i, dataShards) ==
    IF i > dataShards THEN <<>>
    ELSE IF ~IsNull(shards[i])
         THEN <<shards[i]>> \o Recover(shards, avail, availableIndex, i + 1, dataShards)
         ELSE LET a == SkipData(avail, availableIndex, i, dataShards)
              IN  IF a <= Len(avail)
                  THEN <<shards[avail[a]]>>
                       \o Recover(shards, avail, a + 1, i + 1, dataShards)
                  ELSE Recover(shards, avail, a, i + 1, dataShards)

\* a decode whose shard count check lets one shard too few through
decodeOneShort(shards, dataShards, parityShards) ==
    LET avail == AvailableShards(shards)
    IN  IF MissingIndices(shards, dataShards) = {}
        THEN [ok |-> TRUE,
              data |-> BufferConcat(SubSeq(shards, 1, dataShards))]
        ELSE IF Len(avail) < dataShards - 1
        THEN [ok |-> FALSE, error |-> "InsufficientShards",
              have |-> Len(avail), need |-> dataShards]
        ELSE [ok |-> TRUE,
              data |-> BufferConcat(Recover(shards, avail, 1, 1, dataShards))]

\* the while loop of decode reads availableShards[availableIndex].index with
\* availableIndex at the end of the array, for some missing data shard from
\* i (from 1) on: a TypeError
RECURSIVE RecoverThrows(_, _, _, _, _)
RecoverThrows(shards, avail, availableIndex, i, dataShards) ==
    IF i > dataShards THEN FALSE
    ELSE IF ~IsNull(shards[i])
         THEN RecoverThrows(shards, avail, availableIndex, i + 1, dataShards)
         ELSE LET a == SkipData(avail, availableIndex, i, dataShards)
              IN  IF a > Len(avail) THEN TRUE
                  ELSE RecoverThrows(shards, avail, a + 1, i + 1, dataShards)

\* a decode that concatenates every shard it was given
decodeWholeArray(shards, dataShards, parityShards) ==
    LET avail == AvailableShards(shards)
    IN  IF Len(avail) < dataShards
        THEN [ok |-> FALSE, error |-> "InsufficientShards",
              have |-> Len(avail), need |-> dataShards]
        ELSE [ok |-> TRUE, data |-> BufferConcat(FilterNonNull(shards))]

\* decode returns [ok |-> TRUE, data |-> buffer] or the error it throws
decode(shards, dataShards, parityShards) ==
    LET avail == AvailableShards(shards)
    IN  IF MissingIndices(shards, dataShards) = {}
        THEN [ok |-> TRUE,
              data |-> BufferConcat(SubSeq(shards, 1, dataShards))]
        ELSE IF Len(avail) < dataShards
        THEN [ok |-> FALSE, error |-> "InsufficientShards",
              have |-> Len(avail), need |-> dataShards]
        ELSE IF RecoverThrows(shards, avail, 1, 1, dataShards)
        THEN [ok |-> FALSE, error |-> "TypeError",
              have |-> Len(avail), need |-> dataShards]
        ELSE [ok |-> TRUE,
              data |-> BufferConcat(Recover(shards, avail, 1, 1, dataShards))]

(***************************************************************************)
(* CryptoUtils and FileUtils (utils.js).                                   *)
(***************************************************************************)
\* crypto.randomBytes: the n-th value drawn in a run; values drawn are
\* pairwise distinct and differ from every index, size and timestamp
randomBytes(n) == 1000 + n

\* crypto.pbkdf2Sync(password, salt, iterations, 32, 'sha256'): injective in
\* its three arguments, and never a value randomBytes returns
pbkdf2Sync(password, salt, iterations) ==
    (iterations \div 10000) * 100000000 + (password + 1) * 10000 + salt

\* the keystream byte AES-256 in counter mode produces at offset k
KeyStream(key, iv, k) == ((key % 251) * 7 + (iv % 241) * 13 + k * 5) % 256

\* the GCM authentication tag: bound to the key, the IV and the ciphertext
AuthTag(key, iv, encrypted) == <<key, iv>> \o encrypted

encrypt(data, key, iv) ==
    LET encrypted == [k \in 1..Len(data) |-> Xor(data[k], KeyStream(key, iv, k))]
    IN  [encrypted |-> encrypted, tag |-> AuthTag(key, iv, encrypted)]

\* decrypt throws (ok = FALSE) when decipher.final() rejects the tag
decrypt(encryptedData, key, iv, tag) ==
    IF tag = AuthTag(key, iv, encryptedData)
    THEN [ok |-> TRUE,
          data |-> [k \in 1..Len(encryptedData) |->
                        Xor(encryptedData[k], KeyStream(key, iv, k))]]
    ELSE [ok |-> FALSE, data |-> <<>>]

\* SHA-256 as a hex digest: collision-free
calculateChecksum(data) == [sha256 |-> data]

\* the checksum byte that ends a zlib stream
Adler(data) ==
    LET RECURSIVE Sum(_)
        Sum(t) == IF t = <<>> THEN 1 ELSE Head(t) + Sum(Tail(t))
    IN  Sum(data) % 256

\* pako.deflate: a self-delimiting stream (length, body, checksum)
compress(data) == <<Len(data)>> \o data \o <<Adler(data)>>

\* pako.inflate: reads one stream and ignores the bytes that follow it;
\* throws (ok = FALSE) on a truncated stream or a checksum mismatch
decompress(data) ==
    IF /\ Len(data) >= 2
       /\ Len(data) >= data[1] + 2
       /\ data[data[1] + 2] = Adler(SubSeq(data, 2, data[1] + 1))
    THEN [ok |-> TRUE, data |-> SubSeq(data, 2, data[1] + 1)]
    ELSE [ok |-> FALSE, data |-> <<>>]

\* buffer.toString('base64'): characters are 0..63, 64 is the padding '='
toBase64(buf) ==
    LET n == Len(buf)
        B(g, j) == IF 3 * g + j <= n THEN buf[3 * g + j] ELSE 0
    IN  [k \in 1..(4 * CeilDiv(n, 3)) |->
            LET g == (k - 1) \div 4
                pos == (k - 1) % 4
            IN  IF pos = 0 THEN B(g, 1) \div 4
                ELSE IF pos = 1 THEN (B(g, 1) % 4) * 16 + (B(g, 2) \div 16)
                ELSE IF pos = 2
                     THEN IF 3 * g + 2 <= n
                          THEN (B(g, 2) % 16) * 4 + (B(g, 3) \div 64) ELSE 64
                ELSE IF 3 * g + 3 <= n THEN B(g, 3) % 64 ELSE 64]

\* Buffer.from(text, 'base64')
fromBase64(text) ==
    LET n == Len(text)
        pad == Cardinality({k \in 1..n : text[k] = 64})
        C(g, m) == IF text[4 * g + m] = 64 THEN 0 ELSE text[4 * g + m]
    IN  [j \in 1..(3 * (n \div 4) - pad) |->
            LET g == (j - 1) \div 3
                pos == (j - 1) % 3
            IN  IF pos = 0 THEN C(g, 1) * 4 + (C(g, 2) \div 16)
                ELSE IF pos = 1 THEN (C(g, 2) % 16) * 16 + (C(g, 3) \div 4)
                ELSE (C(g, 3) % 4) * 64 + C(g, 4)]

\* toString('base64') and Buffer.from(.., 'base64') of opaque key material
\* (keys, IVs, salts, tags), which the model does not spell out in bytes
keyToString(v) == [base64 |-> v]
keyFromString(t) == t.base64
\* null where the manifest expects a base64 string
NullString == [base64 |-> Null]

\* a split whose chunk size is rounded down
splitFileFloor(buffer, partitionCount) ==
    LET chunkSize == Len(buffer) \div partitionCount
    IN  [i \in 1..partitionCount |->
            LET start == (i - 1) * chunkSize
                end == Min(start + chunkSize, Len(buffer))
            IN  SubSeq(buffer, start + 1, end)]

splitFile(buffer, partitionCount) ==
    LET chunkSize == CeilDiv(Len(buffer), partitionCount)
    IN  [i \in 1..partitionCount |->
            LET start == (i - 1) * chunkSize
                end == Min(start + chunkSize, Len(buffer))
            IN  SubSeq(buffer, start + 1, end)]

mergePartitions(partitions) == BufferConcat(partitions)

(***************************************************************************)
(* State.                                                                  *)
(***************************************************************************)
VARIABLES
    file,        \* the bytes of the local file handed to uploadFile
    options,     \* the options of uploadFile
    env,         \* the network: per storage node, whether it answers
    upc,         \* where uploadFile stands
    up,          \* the locals of uploadFile and of the distribution loop
    rng,         \* how many values crypto.randomBytes has returned
    clock,       \* Date.now()
    requests,    \* every request the client has sent, in order
    nodes,       \* per storage node: fragment table, files, used space
    mystFile,    \* the contents written to <fileName>.myst, in order
    dpc,         \* where downloadFile stands
    dl,          \* the arguments and locals of downloadFile
    output,      \* the contents written to the output path, in order
    faults,      \* what has gone wrong between upload and download
    rsData, rsD, rsP, rsShards, rsResult, rsPc,  \* codec-level runs
    served,      \* the last request a node handled in a node-level run, and its answer
    handlers     \* the /store and /retrieve handlers of a node that are between two awaits

pipeVars == <<file, options, env, upc, up, rng, clock, requests, nodes,
              mystFile, dpc, dl, output, faults>>
rsVars == <<rsData, rsD, rsP, rsShards, rsResult, rsPc>>
nodeVars == <<served, handlers>>
vars == <<pipeVars, rsVars, nodeVars>>

\* if (x) on a string or null: null and the empty string are falsy.
\* Strings are numbered: 0 is the empty string, 501 and 502 are two
\* non-empty passwords.
Truthy(x) == x # Null /\ x # 0

\* a parity count rounded down
ParityCountFloor(partitions) == (partitions * 4) \div 10

\* Math.ceil(partitions * 0.4); exact for the partition counts of the model
ParityCount(partitions) == CeilDiv(partitions * 4, 10)

\* the storage nodes that exist: enough for the largest upload
NodeCount == (MaxD + ParityCount(MaxD)) * MaxR

(***************************************************************************)
(* The fragment service of a storage node (storage-node.js).               *)
(***************************************************************************)
\* config.maxStorage of every node, in bytes
MaxStorage == 64

EmptyNode == [fragments |-> {}, files |-> {}, usedSpace |-> 0]

\* getAvailableSpace, on a disk with more free space than maxStorage
getAvailableSpace(node) == Min(MaxStorage - node.usedSpace, MaxStorage)

HasFragment(node, fragmentId) ==
    \E f \in node.fragments : f.fragmentId = fragmentId

GetFragment(node, fragmentId) ==
    CHOOSE f \in node.fragments : f.fragmentId = fragmentId

ReadFile(node, fragmentId) ==
    (CHOOSE f \in node.files : f.name = fragmentId).data

\* Map.set and fs.writeFile replace what the name held before
MapSet(table, entry) ==
    {f \in table : f.fragmentId # entry.fragmentId} \cup {entry}
WriteFile(files, name, data) ==
    {f \in files : f.name # name} \cup {[name |-> name, data |-> data]}

\* a /store handler that counts the fragment's size before it checks the
\* checksum
storeCountsFirst(node, body) ==
    LET fragmentSize == Len(fromBase64(body.data))
        counted == [node EXCEPT !.usedSpace = @ + fragmentSize]
    IN  IF fragmentSize > getAvailableSpace(node)
        THEN [status |-> 507, success |-> FALSE, node |-> node]
        ELSE IF calculateChecksum(fromBase64(body.data)) # body.checksum
        THEN [status |-> 400, success |-> FALSE, node |-> counted]
        ELSE [status |-> 200, success |-> TRUE,
              node |-> [fragments |->
                            MapSet(node.fragments,
                                   [fragmentId |-> body.fragmentId,
                                    size |-> fragmentSize,
                                    checksum |-> body.checksum,
                                    metadata |-> body.metadata,
                                    accessCount |-> 0]),
                        files |-> WriteFile(node.files, body.fragmentId,
                                            fromBase64(body.data)),
                        usedSpace |-> counted.usedSpace]]

\* POST /store: the response and the node after it
store(node, body) ==
    LET fragmentSize == Len(fromBase64(body.data))
    IN  IF fragmentSize > getAvailableSpace(node)
        THEN [status |-> 507, success |-> FALSE, node |-> node]
        ELSE IF calculateChecksum(fromBase64(body.data)) # body.checksum
        THEN [status |-> 400, success |-> FALSE, node |-> node]
        ELSE [status |-> 200, success |-> TRUE,
              node |-> [fragments |->
                            MapSet(node.fragments,
                                   [fragmentId |-> body.fragmentId,
                                    size |-> fragmentSize,
                                    checksum |-> body.checksum,
                                    metadata |-> body.metadata,
                                    accessCount |-> 0]),
                        files |-> WriteFile(node.files, body.fragmentId,
                                            fromBase64(body.data)),
                        usedSpace |-> node.usedSpace + fragmentSize]]

\* GET /retrieve/:fragmentId: the response and the node after it
retrieve(node, fragmentId) ==
    IF ~HasFragment(node, fragmentId)
    THEN [status |-> 404, success |-> FALSE, data |-> <<>>, node |-> node]
    ELSE LET fragment == GetFragment(node, fragmentId)
             touched == [node EXCEPT !.fragments =
                            MapSet(node.fragments,
                                   [fragment EXCEPT !.accessCount = @ + 1])]
         IN  IF ~\E f \in node.files : f.name = fragmentId
             THEN [status |-> 500, success |-> FALSE, data |-> <<>>,
                   node |-> touched]
             ELSE IF calculateChecksum(ReadFile(node, fragmentId)) # fragment.checksum
             THEN [status |-> 500, success |-> FALSE, data |-> <<>>,
                   node |-> touched]
             ELSE [status |-> 200, success |-> TRUE,
                   data |-> toBase64(ReadFile(node, fragmentId)),
                   node |-> touched]

\* POST /store of the first server variant: the same checks, a table entry
\* without the access counter
storeV1(node, body) ==
    LET fragmentSize == Len(fromBase64(body.data))
    IN  IF fragmentSize > getAvailableSpace(node)
        THEN [status |-> 507, success |-> FALSE, node |-> node]
        ELSE IF calculateChecksum(fromBase64(body.data)) # body.checksum
        THEN [status |-> 400, success |-> FALSE, node |-> node]
        ELSE [status |-> 200, success |-> TRUE,
              node |-> [fragments |->
                            MapSet(node.fragments,
                                   [fragmentId |-> body.fragmentId,
                                    size |-> fragmentSize,
                                    checksum |-> body.checksum,
                                    metadata |-> body.metadata]),
                        files |-> WriteFile(node.files, body.fragmentId,
                                            fromBase64(body.data)),
                        usedSpace |-> node.usedSpace + fragmentSize]]

\* GET /retrieve/:fragmentId of the first server variant: the file is read
\* and returned as it is; ENOENT is answered 404
retrieveV1(node, fragmentId) ==
    IF ~\E f \in node.files : f.name = fragmentId
    THEN [status |-> 404, success |-> FALSE, data |-> <<>>, node |-> node]
    ELSE [status |-> 200, success |-> TRUE,
          data |-> toBase64(ReadFile(node, fragmentId)), node |-> node]

(***************************************************************************)
(* Uploader (upload.js).                                                   *)
(***************************************************************************)
\* deriveMasterKey(input, returnSalt): a string is stretched with a fresh
\* 32-byte salt, a buffer is returned as it is
deriveMasterKey(input, isString, salt) ==
    IF isString
    THEN [key |-> pbkdf2Sync(input, salt, 100000), salt |-> salt]
    ELSE [key |-> input, salt |-> Null]

\* the node descriptor the directory returns for node id
NodeDescriptor(id) == [id |-> id, address |-> id, reliability |-> env.reliability[id]]

\* measureNodeLatencies: the time a ping took, 999999 when it failed
measureNodeLatencies(nodeList) ==
    [id \in {nodeList[k].id : k \in 1..Len(nodeList)} |->
        IF env.up[id] THEN env.latency[id] ELSE 999999]

\* scoreA - scoreB < 0, the score being (latencies[x.id] || 999999) /
\* x.reliability: a latency of 0 is falsy and becomes 999999; a reliability
\* of 0 makes the score Infinity, and Infinity - Infinity is NaN, which the
\* sort takes as 0
ScoreLess(a, b, latencies) ==
    LET la == IF latencies[a.id] = 0 THEN 999999 ELSE latencies[a.id]
        lb == IF latencies[b.id] = 0 THEN 999999 ELSE latencies[b.id]
    IN  IF a.reliability = 0 THEN FALSE
        ELSE IF b.reliability = 0 THEN TRUE
        ELSE la * b.reliability < lb * a.reliability

\* x placed behind every element that does not score above it
InsertNode(sorted, x, latencies) ==
    LET before == {k \in 1..Len(sorted) : ~ScoreLess(x, sorted[k], latencies)}
        at == IF before = {} THEN 0 ELSE CHOOSE k \in before : \A m \in before : m <= k
    IN  SubSeq(sorted, 1, at) \o <<x>> \o SubSeq(sorted, at + 1, Len(sorted))

\* nodes.sort((a, b) => scoreA - scoreB): a stable sort, ascending by score
RECURSIVE sortNodesByPerformance(_, _)
sortNodesByPerformance(nodeList, latencies) ==
    IF nodeList = <<>> THEN <<>>
    ELSE InsertNode(sortNodesByPerformance(SubSeq(nodeList, 1, Len(nodeList) - 1),
                                           latencies),
                    nodeList[Len(nodeList)], latencies)

\* Math.max(...filePartitions.map(p => p.length))
RECURSIVE MaxLength(_)
MaxLength(list) ==
    IF list = <<>> THEN 0 ELSE Max(Len(Head(list)), MaxLength(Tail(list)))

\* the query of GET /nodes
NodesQuery(filePartitions, redundancy) ==
    [path |-> "/nodes", to |-> 0,
     body |-> [count |-> Len(filePartitions) * redundancy,
               minSpace |-> MaxLength(filePartitions)]]

PingRequest(id) == [path |-> "/ping", to |-> id, body |-> [none |-> TRUE]]

\* a request body that also carries the fragment's encryption record
StoreBodyWithEncryption(fragmentId, fragment, fileHash, i, r, now) ==
    [fragmentId |-> fragmentId,
     data |-> toBase64(fragment.encrypted),
     checksum |-> calculateChecksum(fragment.encrypted),
     metadata |-> [fileHash |-> fileHash,
                   partitionIndex |-> i,
                   redundancyIndex |-> r,
                   doubleEncrypted |-> TRUE,
                   timestamp |-> now,
                   encryption |-> [key |-> fragment.key, iv |-> fragment.iv,
                                   tag |-> fragment.tag, salt |-> fragment.salt]]]

\* the body of POST /store; fragment holds what is in scope at the call: the
\* ciphertext and the secrets it was made with
StoreBody(fragmentId, fragment, fileHash, i, r, now) ==
    [fragmentId |-> fragmentId,
     data |-> toBase64(fragment.encrypted),
     checksum |-> calculateChecksum(fragment.encrypted),
     metadata |-> [fileHash |-> fileHash,
                   partitionIndex |-> i,
                   redundancyIndex |-> r,
                   doubleEncrypted |-> TRUE,
                   timestamp |-> now]]

\* the fragment descriptor pushed to partitionInfo.fragments
FragmentDescriptor(fragmentId, r, node, encrypted, fragmentKey, fragmentIV, tag, salt) ==
    [fragmentId |-> fragmentId,
     redundancyIndex |-> r,
     nodeId |-> node.id,
     nodeAddress |-> node.address,
     checksum |-> calculateChecksum(encrypted),
     encryption |-> [key |-> keyToString(fragmentKey),
                     iv |-> keyToString(fragmentIV),
                     tag |-> keyToString(tag),
                     salt |-> keyToString(salt),
                     algorithm |-> "AES-256-GCM-LAYER2"]]

NullConfig == [dataShards |-> Null, parityShards |-> Null, totalShards |-> Null]

\* a masterEncryption record that stores the key whatever the password
MasterEncryptionRecordWithKey(masterPassword, passwordProtected, masterKey, masterKeySalt, masterIV, masterTag, masterEncryptedHash) ==
    [algorithm |-> "AES-256-GCM",
     key |-> keyToString(masterKey),
     iv |-> keyToString(masterIV),
     tag |-> keyToString(masterTag),
     salt |-> IF masterKeySalt # Null THEN keyToString(masterKeySalt) ELSE NullString,
     encryptedHash |-> masterEncryptedHash,
     keyDerivation |-> IF Truthy(masterPassword) THEN "PBKDF2" ELSE "RANDOM",
     passwordProtected |-> passwordProtected]

\* the masterEncryption record of the recovery file
MasterEncryptionRecord(masterPassword, passwordProtected, masterKey, masterKeySalt, masterIV, masterTag, masterEncryptedHash) ==
    [algorithm |-> "AES-256-GCM",
     key |-> IF passwordProtected THEN NullString ELSE keyToString(masterKey),
     iv |-> keyToString(masterIV),
     tag |-> keyToString(masterTag),
     salt |-> IF masterKeySalt # Null THEN keyToString(masterKeySalt) ELSE NullString,
     encryptedHash |-> masterEncryptedHash,
     keyDerivation |-> IF Truthy(masterPassword) THEN "PBKDF2" ELSE "RANDOM",
     passwordProtected |-> passwordProtected]

\* the recovery file uploadFile writes
RecoveryFile(u, opts, fileBuffer, now) ==
    [version |-> "3.0",
     fileHash |-> u.fileHash,
     originalSize |-> Len(fileBuffer),
     compressed |-> opts.compression,
     reedSolomon |-> opts.reedSolomon,
     reedSolomonConfig |->
        IF opts.reedSolomon
        THEN [dataShards |-> u.dataShards, parityShards |-> u.parityShards,
              totalShards |-> u.dataShards + u.parityShards]
        ELSE NullConfig,
     timestamp |-> now,
     security |->
        [doubleEncryption |-> TRUE,
         masterEncryption |->
            MasterEncryptionRecord(opts.masterPassword, u.passwordProtected,
                                   u.masterKey, u.masterKeySalt, u.masterIV,
                                   u.masterTag, u.masterEncryptedHash),
         fragmentEncryption |->
            [algorithm |-> "AES-256-GCM", uniqueKeysPerFragment |-> TRUE,
             totalUniqueKeys |-> u.totalEncryptions]],
     partitions |-> u.recoveryMap]

NoUpload ==
    [fileHash |-> calculateChecksum(<<>>), masterKey |-> Null,
     masterKeySalt |-> Null, passwordProtected |-> FALSE, masterIV |-> Null,
     masterTag |-> <<>>, masterEncryptedHash |-> calculateChecksum(<<>>),
     filePartitions |-> <<>>, dataShards |-> 0, parityShards |-> 0,
     availableNodes |-> <<>>, sortedNodes |-> <<>>, i |-> 0, r |-> 0,
     nodeIndex |-> 0, fragments |-> <<>>, recoveryMap |-> <<>>,
     totalEncryptions |-> 0, error |-> "none",
     response |-> [status |-> 0, success |-> FALSE]]

\* uploadFile up to the directory query: read, hash, master encryption,
\* compression, erasure layer; an encode that throws ends the upload
UploadStart ==
    /\ upc = "start"
    /\ LET passwordProtected == Truthy(options.masterPassword)
           master == IF passwordProtected
                     THEN deriveMasterKey(options.masterPassword, TRUE,
                                          randomBytes(rng + 1))
                     ELSE deriveMasterKey(randomBytes(rng + 1), FALSE, Null)
           masterIV == randomBytes(rng + 2)
           enc == encrypt(file, master.key, masterIV)
           processedBuffer == IF options.compression THEN compress(enc.encrypted)
                              ELSE enc.encrypted
           dataShards == options.partitions
           parityShards == IF options.reedSolomon
                           THEN ParityCount(options.partitions) ELSE 0
           filePartitions == IF options.reedSolomon
                             THEN encode(processedBuffer, dataShards, parityShards)
                             ELSE splitFile(processedBuffer, options.partitions)
           started == [up EXCEPT
                        !.fileHash = calculateChecksum(file),
                        !.masterKey = master.key,
                        !.masterKeySalt = master.salt,
                        !.passwordProtected = passwordProtected,
                        !.masterIV = masterIV,
                        !.masterTag = enc.tag,
                        !.masterEncryptedHash = calculateChecksum(enc.encrypted),
                        !.dataShards = dataShards,
                        !.parityShards = parityShards]
       IN  IF options.reedSolomon
              /\ encodeThrows(processedBuffer, dataShards, parityShards)
           THEN /\ up' = [started EXCEPT !.error = "RangeError"]
                /\ upc' = "failed"
                /\ UNCHANGED requests
           ELSE /\ up' = [started EXCEPT !.filePartitions = filePartitions]
                /\ upc' = "nodes"
                /\ requests' = Append(requests,
                                      NodesQuery(filePartitions, options.redundancy))
    /\ rng' = rng + 2
    /\ UNCHANGED <<file, options, env, clock, nodes, mystFile, dpc, dl, output,
                   faults, rsVars, nodeVars>>

\* an upload that goes on with whatever the directory returned
UploadNodesUncounted(n) ==
    /\ upc = "nodes"
    /\ LET availableNodes == [k \in 1..n |-> NodeDescriptor(k)]
       IN  /\ up' = [up EXCEPT !.availableNodes = availableNodes]
           /\ upc' = "ping"
           /\ requests' = requests \o [k \in 1..n |-> PingRequest(k)]
    /\ UNCHANGED <<file, options, env, rng, clock, nodes, mystFile, dpc, dl,
                   output, faults, rsVars, nodeVars>>

\* the directory answers with n nodes; too few end the upload, otherwise
\* every node is pinged
UploadNodes(n) ==
    /\ upc = "nodes"
    /\ LET requiredNodes == Len(up.filePartitions) * options.redundancy
           availableNodes == [k \in 1..n |-> NodeDescriptor(k)]
       IN  IF Len(availableNodes) < requiredNodes
           THEN /\ up' = [up EXCEPT !.availableNodes = availableNodes,
                                      !.error = "InsufficientNodes"]
                /\ upc' = "failed"
                /\ UNCHANGED requests
           ELSE /\ up' = [up EXCEPT !.availableNodes = availableNodes]
                /\ upc' = "ping"
                /\ requests' = requests \o [k \in 1..n |-> PingRequest(k)]
    /\ UNCHANGED <<file, options, env, rng, clock, nodes, mystFile, dpc, dl,
                   output, faults, rsVars, nodeVars>>

\* the pings are answered (or time out): rank the nodes
UploadRank ==
    /\ upc = "ping"
    /\ up' = [up EXCEPT !.sortedNodes =
                sortNodesByPerformance(up.availableNodes,
                                       measureNodeLatencies(up.availableNodes))]
    /\ upc' = "store"
    /\ UNCHANGED <<file, options, env, rng, clock, requests, nodes, mystFile,
                   dpc, dl, output, faults, rsVars, nodeVars>>

\* the /store requests sent so far, and those that failed
StoreRequests == {q \in 1..Len(requests) : requests[q].path = "/store"}
FailedStores == Cardinality(StoreRequests) - up.totalEncryptions

\* what a node answers to POST /store: nothing when it cannot be reached
\* (axios rejects), 200 without success from a node that is silent, else
\* the answer of the node's handler
StoreResponse(id, body) ==
    IF ~env.up[id]
    THEN [status |-> 0, success |-> FALSE, node |-> nodes[id]]
    ELSE IF env.silent[id]
    THEN [status |-> 200, success |-> FALSE, node |-> nodes[id]]
    ELSE IF env.variant[id] = 1
    THEN storeV1(nodes[id], body)
    ELSE store(nodes[id], body)

\* await axios.post(...) resolves on every 2xx answer; the answer's body is
\* not read
Resolved(response) == response.status >= 200 /\ response.status < 300

\* a try block that does not move to the next node
AfterStoreSameNode(u, response, descriptor) ==
    LET fragments == Append(u.fragments, descriptor)
        partition == u.filePartitions[u.i + 1]
        partitionInfo == [index |-> u.i,
                          originalChecksum |-> calculateChecksum(partition),
                          size |-> Len(partition),
                          fragments |-> fragments]
        lastOfShard == u.r + 1 = options.redundancy
    IN  [u EXCEPT !.fragments = IF lastOfShard THEN <<>> ELSE fragments,
                  !.recoveryMap = IF lastOfShard THEN Append(@, partitionInfo) ELSE @,
                  !.totalEncryptions = @ + 1,
                  !.r = IF lastOfShard THEN 0 ELSE @ + 1,
                  !.i = IF lastOfShard THEN @ + 1 ELSE @,
                  !.response = response]

\* the try block after the post resolved: push the descriptor, count, move
\* to the next node; the for loops move to the next slot
AfterStore(u, response, descriptor) ==
    LET fragments == Append(u.fragments, descriptor)
        partition == u.filePartitions[u.i + 1]
        partitionInfo == [index |-> u.i,
                          originalChecksum |-> calculateChecksum(partition),
                          size |-> Len(partition),
                          fragments |-> fragments]
        lastOfShard == u.r + 1 = options.redundancy
    IN  [u EXCEPT !.fragments = IF lastOfShard THEN <<>> ELSE fragments,
                  !.recoveryMap = IF lastOfShard THEN Append(@, partitionInfo) ELSE @,
                  !.totalEncryptions = @ + 1,
                  !.nodeIndex = @ + 1,
                  !.r = IF lastOfShard THEN 0 ELSE @ + 1,
                  !.i = IF lastOfShard THEN @ + 1 ELSE @,
                  !.response = response]

\* a catch block that lets the for loop go on to the next slot
AfterFailureNextSlot(u, response) ==
    LET partition == u.filePartitions[u.i + 1]
        partitionInfo == [index |-> u.i,
                          originalChecksum |-> calculateChecksum(partition),
                          size |-> Len(partition),
                          fragments |-> u.fragments]
        lastOfShard == u.r + 1 = options.redundancy
    IN  [u EXCEPT !.fragments = IF lastOfShard THEN <<>> ELSE @,
                  !.recoveryMap = IF lastOfShard THEN Append(@, partitionInfo) ELSE @,
                  !.r = IF lastOfShard THEN 0 ELSE @ + 1,
                  !.i = IF lastOfShard THEN @ + 1 ELSE @,
                  !.response = response]

\* a catch block that also steps back to the node before
AfterFailureStepsBack(u, response) ==
    [u EXCEPT !.response = response,
              !.nodeIndex = IF @ > 0 THEN @ - 1 ELSE @]

\* the catch block: r-- undoes the r++ of the for loop, so the same slot is
\* tried again; nodeIndex is as it was
AfterFailure(u, response) == [u EXCEPT !.response = response]

\* a loop over r whose key, IV and salt are drawn once per shard, before
\* the loop, and used for every copy and every retry
UploadStoreSecretsPerShard ==
    /\ upc = "store"
    /\ LET node == up.sortedNodes[(up.nodeIndex % Len(up.sortedNodes)) + 1]
           partition == up.filePartitions[up.i + 1]
           fragmentKey == randomBytes(3 * up.i + 1)
           fragmentIV == randomBytes(3 * up.i + 2)
           salt == randomBytes(3 * up.i + 3)
           derivedFragmentKey == pbkdf2Sync(fragmentKey, salt, 10000)
           enc == encrypt(partition, derivedFragmentKey, fragmentIV)
           fragmentId == calculateChecksum(
                            enc.encrypted \o <<fragmentKey, fragmentIV, up.i, up.r, clock>>)
           body == StoreBody(fragmentId,
                             [encrypted |-> enc.encrypted, tag |-> enc.tag,
                              key |-> fragmentKey, iv |-> fragmentIV,
                              salt |-> salt, derivedKey |-> derivedFragmentKey],
                             up.fileHash, up.i, up.r, clock)
           answer == StoreResponse(node.id, body)
           response == [status |-> answer.status, success |-> answer.success]
           descriptor == FragmentDescriptor(fragmentId, up.r, node, enc.encrypted,
                                            fragmentKey, fragmentIV, enc.tag, salt)
           after == IF Resolved(response)
                    THEN AfterStore(up, response, descriptor)
                    ELSE AfterFailure(up, response)
       IN  /\ IF Resolved(response) THEN TRUE ELSE FailedStores < MaxFailures
           /\ requests' = Append(requests,
                                 [path |-> "/store", to |-> node.id, body |-> body])
           /\ nodes' = [nodes EXCEPT ![node.id] = answer.node]
           /\ up' = after
           /\ upc' = IF after.i >= Len(up.filePartitions) THEN "emit" ELSE "store"
    /\ rng' = rng + 3
    /\ clock' = clock + 1
    /\ UNCHANGED <<file, options, env, mystFile, dpc, dl, output, faults, rsVars, nodeVars>>

\* one pass of the loop over r in distributePartitionsWithDoubleEncryption:
\* a fragment of shard i is encrypted under fresh secrets, posted to a node
\* and, when the post resolves, recorded
UploadStore ==
    /\ upc = "store"
    /\ LET node == up.sortedNodes[(up.nodeIndex % Len(up.sortedNodes)) + 1]
           partition == up.filePartitions[up.i + 1]
           fragmentKey == randomBytes(rng + 1)
           fragmentIV == randomBytes(rng + 2)
           salt == randomBytes(rng + 3)
           derivedFragmentKey == pbkdf2Sync(fragmentKey, salt, 10000)
           enc == encrypt(partition, derivedFragmentKey, fragmentIV)
           fragmentId == calculateChecksum(
                            enc.encrypted \o <<fragmentKey, fragmentIV, up.i, up.r, clock>>)
           body == StoreBody(fragmentId,
                             [encrypted |-> enc.encrypted, tag |-> enc.tag,
                              key |-> fragmentKey, iv |-> fragmentIV,
                              salt |-> salt, derivedKey |-> derivedFragmentKey],
                             up.fileHash, up.i, up.r, clock)
           answer == StoreResponse(node.id, body)
           response == [status |-> answer.status, success |-> answer.success]
           descriptor == FragmentDescriptor(fragmentId, up.r, node, enc.encrypted,
                                            fragmentKey, fragmentIV, enc.tag, salt)
           after == IF Resolved(response)
                    THEN AfterStore(up, response, descriptor)
                    ELSE AfterFailure(up, response)
       IN  /\ IF Resolved(response) THEN TRUE ELSE FailedStores < MaxFailures
           /\ requests' = Append(requests,
                                 [path |-> "/store", to |-> node.id, body |-> body])
           /\ nodes' = [nodes EXCEPT ![node.id] = answer.node]
           /\ up' = after
           /\ upc' = IF after.i >= Len(up.filePartitions) THEN "emit" ELSE "store"
    /\ rng' = rng + 3
    /\ clock' = clock + 1
    /\ UNCHANGED <<file, options, env, mystFile, dpc, dl, output, faults, rsVars, nodeVars>>

\* a recovery file written while fragments are still being distributed
UploadEmitDuringStore ==
    /\ upc \in {"store", "emit"}
    /\ mystFile' = Append(mystFile, RecoveryFile(up, options, file, clock))
    /\ upc' = "done"
    /\ UNCHANGED <<file, options, env, up, rng, clock, requests, nodes, dpc, dl,
                   output, faults, rsVars, nodeVars>>

\* the recovery file is written next to the source file
UploadEmit ==
    /\ upc = "emit"
    /\ mystFile' = Append(mystFile, RecoveryFile(up, options, file, clock))
    /\ upc' = "done"
    /\ UNCHANGED <<file, options, env, up, rng, clock, requests, nodes, dpc, dl,
                   output, faults, rsVars, nodeVars>>

(***************************************************************************)
(* Downloader (download.js).                                               *)
(***************************************************************************)
\* what a partition's task returns when no copy could be fetched
NoDownload == [present |-> FALSE, index |-> Null, data |-> <<>>]

\* what axios.get(.../retrieve/id) yields from node to: nothing when the node
\* cannot be reached (axios rejects), 200 without success from a node that
\* is silent, else the answer of the node's handler
RetrieveResponse(to, nodeStates, fragmentId) ==
    IF ~env.up[to]
    THEN [status |-> 0, success |-> FALSE, data |-> <<>>, node |-> nodeStates[to]]
    ELSE IF env.silent[to]
    THEN [status |-> 200, success |-> FALSE, data |-> <<>>, node |-> nodeStates[to]]
    ELSE IF env.variant[to] = 1
    THEN retrieveV1(nodeStates[to], fragmentId)
    ELSE retrieve(nodeStates[to], fragmentId)

\* the copy is taken: the get resolved, the answer says success and the
\* bytes hash to the descriptor's checksum
Accepted(response, fragment) ==
    /\ Resolved(response)
    /\ response.success
    /\ calculateChecksum(fromBase64(response.data)) = fragment.checksum

\* the partition's task that asks for replica k and gives up when that copy
\* fails
FetchPartitionNoFallback(partition, index, k, st) ==
    IF k > Len(partition.fragments)
    THEN [result |-> NoDownload, nodes |-> st.nodes, requests |-> st.requests]
    ELSE LET fragment == partition.fragments[k]
             to == fragment.nodeAddress
             sent == Append(st.requests,
                            [path |-> "/retrieve", to |-> to,
                             body |-> [fragmentId |-> fragment.fragmentId]])
             response == RetrieveResponse(to, st.nodes, fragment.fragmentId)
             after == [st.nodes EXCEPT ![to] = response.node]
         IN  IF Accepted(response, fragment)
             THEN [result |-> [present |-> TRUE, index |-> index,
                               data |-> response.data, fragment |-> fragment],
                   nodes |-> after, requests |-> sent]
             ELSE [result |-> NoDownload, nodes |-> after, requests |-> sent]

\* the for loop over partition.fragments from replica k on: the first copy
\* a node returns with success and a matching checksum wins.  st carries the
\* storage nodes and the requests sent so far.
RECURSIVE FetchPartition(_, _, _, _)
FetchPartition(partition, index, k, st) ==
    IF k > Len(partition.fragments)
    THEN [result |-> NoDownload, nodes |-> st.nodes, requests |-> st.requests]
    ELSE LET fragment == partition.fragments[k]
             to == fragment.nodeAddress
             sent == Append(st.requests,
                            [path |-> "/retrieve", to |-> to,
                             body |-> [fragmentId |-> fragment.fragmentId]])
             response == RetrieveResponse(to, st.nodes, fragment.fragmentId)
             after == [st.nodes EXCEPT ![to] = response.node]
         IN  IF Accepted(response, fragment)
             THEN [result |-> [present |-> TRUE, index |-> index,
                               data |-> response.data, fragment |-> fragment],
                   nodes |-> after, requests |-> sent]
             ELSE FetchPartition(partition, index, k + 1,
                                 [nodes |-> after, requests |-> sent])

\* downloadFragmentsWithRetry: one task per partition, results in partition
\* order
RECURSIVE FetchFrom(_, _, _)
FetchFrom(partitionMap, index, st) ==
    IF index >= Len(partitionMap)
    THEN [results |-> <<>>, nodes |-> st.nodes, requests |-> st.requests]
    ELSE LET one == FetchPartition(partitionMap[index + 1], index, 1, st)
             rest == FetchFrom(partitionMap, index + 1,
                               [nodes |-> one.nodes, requests |-> one.requests])
         IN  [results |-> <<one.result>> \o rest.results,
              nodes |-> rest.nodes, requests |-> rest.requests]

downloadFragmentsWithRetry(partitionMap, st) == FetchFrom(partitionMap, 0, st)

\* the body of the loop of decryptFragmentLayer for one fetched fragment
DecryptFragment(downloaded, partitionMap) ==
    LET encryption == downloaded.fragment.encryption
        rawKey == keyFromString(encryption.key)
        key == IF encryption.salt # NullString
               THEN pbkdf2Sync(rawKey, keyFromString(encryption.salt), 10000)
               ELSE rawKey
        dec == decrypt(fromBase64(downloaded.data), key,
                       keyFromString(encryption.iv), keyFromString(encryption.tag))
    IN  IF ~dec.ok THEN NullBuf
        ELSE IF calculateChecksum(dec.data)
                    # partitionMap[downloaded.index + 1].originalChecksum
        THEN NullBuf
        ELSE dec.data

\* a layer-2 pass that packs the partitions it could decrypt to the front
\* of the array and leaves the nulls at its end
decryptFragmentLayerPacked(downloadedFragments, partitionMap) ==
    LET packed == FilterNonNull([i \in 1..Len(partitionMap) |->
                    IF i > Len(downloadedFragments) \/ ~downloadedFragments[i].present
                    THEN NullBuf
                    ELSE DecryptFragment(downloadedFragments[i], partitionMap)])
    IN  [i \in 1..Len(partitionMap) |->
            IF i <= Len(packed) THEN packed[i] ELSE NullBuf]

decryptFragmentLayer(downloadedFragments, partitionMap) ==
    [i \in 1..Len(partitionMap) |->
        IF i > Len(downloadedFragments) \/ ~downloadedFragments[i].present
        THEN NullBuf
        ELSE DecryptFragment(downloadedFragments[i], partitionMap)]

NoError == [kind |-> "none", have |-> 0, need |-> 0]
Error(kind) == [kind |-> kind, have |-> 0, need |-> 0]

\* a reconstruction that merges what it has without counting partitions
ReconstructUncounted(recoveryData, fragmentDecrypted) ==
    LET validPartitions == FilterNonNull(fragmentDecrypted)
    IN  IF recoveryData.reedSolomon /\ recoveryData.reedSolomonConfig # NullConfig
        THEN LET dataShards == recoveryData.reedSolomonConfig.dataShards
                 rs == decode(fragmentDecrypted, dataShards,
                              recoveryData.reedSolomonConfig.parityShards)
             IN  IF rs.ok THEN [error |-> NoError, buffer |-> rs.data]
                 ELSE IF Len(validPartitions) < dataShards
                 THEN [error |-> [kind |-> "InsufficientShards",
                                  have |-> Len(validPartitions),
                                  need |-> dataShards],
                       buffer |-> <<>>]
                 ELSE [error |-> NoError,
                       buffer |-> mergePartitions(SubSeq(validPartitions, 1, dataShards))]
        ELSE [error |-> NoError, buffer |-> mergePartitions(validPartitions)]

\* a reconstruction whose merge without Reed-Solomon takes the partitions
\* last to first
ReconstructReversed(recoveryData, fragmentDecrypted) ==
    LET validPartitions == FilterNonNull(fragmentDecrypted)
    IN  IF recoveryData.reedSolomon /\ recoveryData.reedSolomonConfig # NullConfig
        THEN LET dataShards == recoveryData.reedSolomonConfig.dataShards
                 rs == decode(fragmentDecrypted, dataShards,
                              recoveryData.reedSolomonConfig.parityShards)
             IN  IF rs.ok THEN [error |-> NoError, buffer |-> rs.data]
                 ELSE IF Len(validPartitions) < dataShards
                 THEN [error |-> [kind |-> "InsufficientShards",
                                  have |-> Len(validPartitions),
                                  need |-> dataShards],
                       buffer |-> <<>>]
                 ELSE [error |-> NoError,
                       buffer |-> mergePartitions(SubSeq(validPartitions, 1, dataShards))]
        ELSE IF Len(validPartitions) # Len(recoveryData.partitions)
             THEN [error |-> [kind |-> "MissingPartitions",
                              have |-> Len(validPartitions),
                              need |-> Len(recoveryData.partitions)],
                   buffer |-> <<>>]
             ELSE [error |-> NoError,
                   buffer |-> mergePartitions(
                       [k \in 1..Len(validPartitions) |->
                           validPartitions[Len(validPartitions) + 1 - k]])]

\* the reconstruction of the master-encrypted buffer (lines 63-91)
Reconstruct(recoveryData, fragmentDecrypted) ==
    LET validPartitions == FilterNonNull(fragmentDecrypted)
    IN  IF recoveryData.reedSolomon /\ recoveryData.reedSolomonConfig # NullConfig
        THEN LET dataShards == recoveryData.reedSolomonConfig.dataShards
                 rs == decode(fragmentDecrypted, dataShards,
                              recoveryData.reedSolomonConfig.parityShards)
             IN  IF rs.ok THEN [error |-> NoError, buffer |-> rs.data]
                 ELSE IF Len(validPartitions) < dataShards
                 THEN [error |-> [kind |-> "InsufficientShards",
                                  have |-> Len(validPartitions),
                                  need |-> dataShards],
                       buffer |-> <<>>]
                 ELSE [error |-> NoError,
                       buffer |-> mergePartitions(SubSeq(validPartitions, 1, dataShards))]
        ELSE IF Len(validPartitions) # Len(recoveryData.partitions)
             THEN [error |-> [kind |-> "MissingPartitions",
                              have |-> Len(validPartitions),
                              need |-> Len(recoveryData.partitions)],
                   buffer |-> <<>>]
             ELSE [error |-> NoError, buffer |-> mergePartitions(validPartitions)]

\* decompression when the recovery file says compressed (lines 95-104)
Decompress(recoveryData, buffer) ==
    IF recoveryData.compressed
    THEN LET d == decompress(buffer)
         IN  IF d.ok THEN [error |-> NoError, buffer |-> d.data]
             ELSE [error |-> Error("DecompressionFailed"), buffer |-> <<>>]
    ELSE [error |-> NoError, buffer |-> buffer]

\* the master key of the download (lines 116-128)
DownloadMasterKey(masterEncryption, masterPassword) ==
    IF masterEncryption.passwordProtected
    THEN pbkdf2Sync(masterPassword, keyFromString(masterEncryption.salt), 100000)
    ELSE keyFromString(masterEncryption.key)

\* the same without the comparison of the file hash
VerifyAndDecryptUnhashed(recoveryData, masterEncryptedBuffer, masterPassword) ==
    LET me == recoveryData.security.masterEncryption
    IN  IF calculateChecksum(masterEncryptedBuffer) # me.encryptedHash
        THEN [error |-> Error("MasterIntegrityFailed"), file |-> <<>>]
        ELSE IF me.passwordProtected /\ ~Truthy(masterPassword)
        THEN [error |-> Error("PasswordRequired"), file |-> <<>>]
        ELSE LET dec == decrypt(masterEncryptedBuffer,
                                DownloadMasterKey(me, masterPassword),
                                keyFromString(me.iv), keyFromString(me.tag))
             IN  IF ~dec.ok
                 THEN [error |-> IF me.passwordProtected
                                 THEN Error("IncorrectPassword")
                                 ELSE Error("MasterDecryptionFailed"),
                       file |-> <<>>]
                 ELSE [error |-> NoError, file |-> dec.data]

\* master-ciphertext check, master decryption and file hash check
\* (lines 106-158)
VerifyAndDecrypt(recoveryData, masterEncryptedBuffer, masterPassword) ==
    LET me == recoveryData.security.masterEncryption
    IN  IF calculateChecksum(masterEncryptedBuffer) # me.encryptedHash
        THEN [error |-> Error("MasterIntegrityFailed"), file |-> <<>>]
        ELSE IF me.passwordProtected /\ ~Truthy(masterPassword)
        THEN [error |-> Error("PasswordRequired"), file |-> <<>>]
        ELSE LET dec == decrypt(masterEncryptedBuffer,
                                DownloadMasterKey(me, masterPassword),
                                keyFromString(me.iv), keyFromString(me.tag))
             IN  IF ~dec.ok
                 THEN [error |-> IF me.passwordProtected
                                 THEN Error("IncorrectPassword")
                                 ELSE Error("MasterDecryptionFailed"),
                       file |-> <<>>]
                 ELSE IF calculateChecksum(dec.data) # recoveryData.fileHash
                 THEN [error |-> Error("FileHashMismatch"), file |-> <<>>]
                 ELSE [error |-> NoError, file |-> dec.data]

\* a download that compares the hash of the reconstructed buffer before it
\* decompresses
ProcessDownloadHashFirst(recoveryData, downloadedFragments, masterPassword) ==
    LET fragmentDecrypted == decryptFragmentLayer(downloadedFragments,
                                                  recoveryData.partitions)
        rec == Reconstruct(recoveryData, fragmentDecrypted)
        dec == Decompress(recoveryData, rec.buffer)
        fin == VerifyAndDecrypt(recoveryData, dec.buffer, masterPassword)
    IN  IF rec.error # NoError
        THEN [error |-> rec.error, fragmentDecrypted |-> fragmentDecrypted,
              masterEncryptedBuffer |-> <<>>, originalFile |-> <<>>]
        ELSE IF calculateChecksum(rec.buffer)
                    # recoveryData.security.masterEncryption.encryptedHash
        THEN [error |-> Error("MasterIntegrityFailed"),
              fragmentDecrypted |-> fragmentDecrypted,
              masterEncryptedBuffer |-> <<>>, originalFile |-> <<>>]
        ELSE IF dec.error # NoError
        THEN [error |-> dec.error, fragmentDecrypted |-> fragmentDecrypted,
              masterEncryptedBuffer |-> <<>>, originalFile |-> <<>>]
        ELSE [error |-> fin.error, fragmentDecrypted |-> fragmentDecrypted,
              masterEncryptedBuffer |-> dec.buffer, originalFile |-> fin.file]

\* downloadFile between the fetch and the save (lines 53-160)
ProcessDownload(recoveryData, downloadedFragments, masterPassword) ==
    LET fragmentDecrypted == decryptFragmentLayer(downloadedFragments,
                                                  recoveryData.partitions)
        rec == Reconstruct(recoveryData, fragmentDecrypted)
        dec == Decompress(recoveryData, rec.buffer)
        fin == VerifyAndDecrypt(recoveryData, dec.buffer, masterPassword)
    IN  IF rec.error # NoError
        THEN [error |-> rec.error, fragmentDecrypted |-> fragmentDecrypted,
              masterEncryptedBuffer |-> <<>>, originalFile |-> <<>>]
        ELSE IF dec.error # NoError
        THEN [error |-> dec.error, fragmentDecrypted |-> fragmentDecrypted,
              masterEncryptedBuffer |-> <<>>, originalFile |-> <<>>]
        ELSE [error |-> fin.error, fragmentDecrypted |-> fragmentDecrypted,
              masterEncryptedBuffer |-> dec.buffer, originalFile |-> fin.file]

\* a gate that lets every call through
PasswordGateOpen(recoveryData, masterPassword) == FALSE

\* the password gate at the head of downloadFile (lines 24-29)
PasswordGate(recoveryData, masterPassword) ==
    recoveryData.security.masterEncryption.passwordProtected /\ ~Truthy(masterPassword)

\* verifyAvailability has not run
NoAvailability ==
    [total |-> 0, available |-> 0, percentage |-> 0, uniqueKeys |-> 0,
     recoverable |-> FALSE]

NoDownloadRun ==
    [masterPassword |-> Null, recoveryData |-> <<>>, downloaded |-> <<>>,
     fragmentDecrypted |-> <<>>, masterEncryptedBuffer |-> <<>>,
     originalFile |-> <<>>, error |-> NoError, availability |-> NoAvailability,
     tasks |-> <<>>, settled |-> <<>>]

\* the passwords a user may pass to downloadFile: none, the empty string,
\* and two non-empty strings
Passwords == {Null, 0, 501, 502}

\* downloadFile is called on the recovery file: read it, pass the password
\* gate, start fetching
DownloadStart(masterPassword) ==
    /\ upc = "done"
    /\ dpc = "idle"
    /\ LET recoveryData == mystFile[Len(mystFile)]
       IN  /\ dl' = [dl EXCEPT
                        !.masterPassword = masterPassword,
                        !.recoveryData = <<recoveryData>>,
                        !.error = IF PasswordGate(recoveryData, masterPassword)
                                  THEN Error("PasswordRequired") ELSE NoError]
           /\ dpc' = IF PasswordGate(recoveryData, masterPassword)
                     THEN "failed" ELSE "fetch"
    /\ UNCHANGED <<file, options, env, upc, up, rng, clock, requests, nodes,
                   mystFile, output, faults, rsVars, nodeVars>>

\* every partition's task has fetched a copy or given up
DownloadFetch ==
    /\ dpc = "fetch"
    /\ LET got == downloadFragmentsWithRetry(dl.recoveryData[1].partitions,
                                             [nodes |-> nodes, requests |-> requests])
       IN  /\ dl' = [dl EXCEPT !.downloaded = got.results]
           /\ nodes' = got.nodes
           /\ requests' = got.requests
    /\ dpc' = "process"
    /\ UNCHANGED <<file, options, env, upc, up, rng, clock, mystFile, output,
                   faults, rsVars, nodeVars>>

\* layer-2 decryption, reconstruction, decompression, checks and master
\* decryption; a failure throws and ends the download
DownloadProcess ==
    /\ dpc = "process"
    /\ LET res == ProcessDownload(dl.recoveryData[1], dl.downloaded, dl.masterPassword)
       IN  /\ dl' = [dl EXCEPT
                        !.fragmentDecrypted = res.fragmentDecrypted,
                        !.masterEncryptedBuffer = res.masterEncryptedBuffer,
                        !.originalFile = res.originalFile,
                        !.error = res.error]
           /\ dpc' = IF res.error = NoError THEN "save" ELSE "failed"
    /\ UNCHANGED <<file, options, env, upc, up, rng, clock, requests, nodes,
                   mystFile, output, faults, rsVars, nodeVars>>

\* fs.writeFile(outputFilePath, originalFile)
DownloadSave ==
    /\ dpc = "save"
    /\ output' = Append(output, dl.originalFile)
    /\ dpc' = "done"
    /\ UNCHANGED <<file, options, env, upc, up, rng, clock, requests, nodes,
                   mystFile, dl, faults, rsVars, nodeVars>>

(***************************************************************************)
(* verifyAvailability (download.js).                                       *)
(***************************************************************************)
\* the fragments of all partitions in the order of the two for loops
RECURSIVE AllFragments(_)
AllFragments(partitions) ==
    IF partitions = <<>> THEN <<>>
    ELSE Head(partitions).fragments \o AllFragments(Tail(partitions))

\* (x / total * 100).toFixed(2), in hundredths of a percent
Percentage(x, total) == (2 * 10000 * x + total) \div (2 * total)

\* verifyAvailability: ping the node of every fragment, count the answers,
\* and judge whether the file can be recovered
verifyAvailability(recoveryData) ==
    LET fragments == AllFragments(recoveryData.partitions)
        answered == {k \in 1..Len(fragments) : env.up[fragments[k].nodeAddress]}
        uniqueKeys == {fragments[k].encryption.key : k \in 1..Len(fragments)}
        minRequired == IF recoveryData.reedSolomonConfig # NullConfig
                       THEN recoveryData.reedSolomonConfig.dataShards
                       ELSE Len(recoveryData.partitions)
        availablePartitions ==
            Cardinality({p \in 1..Len(recoveryData.partitions) :
                            Len(recoveryData.partitions[p].fragments) > 0})
    IN  [pings |-> [k \in 1..Len(fragments) |-> PingRequest(fragments[k].nodeAddress)],
         result |-> [total |-> Len(fragments),
                     available |-> Cardinality(answered),
                     percentage |-> Percentage(Cardinality(answered), Len(fragments)),
                     uniqueKeys |-> Cardinality(uniqueKeys) + 1,
                     recoverable |-> availablePartitions >= minRequired]]

\* a call of verifyAvailability on the recovery file the upload wrote
VerifyAvailability ==
    /\ upc = "done"
    /\ dpc = "idle"
    /\ dl.availability = NoAvailability
    /\ LET checked == verifyAvailability(mystFile[Len(mystFile)])
       IN  /\ dl' = [dl EXCEPT !.availability = checked.result]
           /\ requests' = requests \o checked.pings
    /\ UNCHANGED <<file, options, env, upc, up, rng, clock, nodes, mystFile,
                   dpc, output, faults, rsVars, nodeVars>>

(***************************************************************************)
(* The client pipeline with every node healthy.                            *)
(***************************************************************************)
HealthyEnv ==
    [up |-> [n \in 1..NodeCount |-> TRUE],
     silent |-> [n \in 1..NodeCount |-> FALSE],
     variant |-> [n \in 1..NodeCount |-> 2],
     latency |-> [n \in 1..NodeCount |-> 1],
     reliability |-> [n \in 1..NodeCount |-> 1]]

NoFaults == [lost |-> {}, tampered |-> {}, manifest |-> FALSE, version |-> FALSE]

\* no node-level run: no request was handled
NotServed == [op |-> "none", fragmentId |-> Null, body |-> <<>>, status |-> 0,
              success |-> FALSE, data |-> <<>>]

\* a handler slot in which no request is being handled
NoHandler == [pc |-> "idle", op |-> "none", fragmentId |-> Null, body |-> <<>>,
              written |-> 0]

\* no codec-level run
CodecIdle ==
    /\ rsData = <<>>
    /\ rsD = 1
    /\ rsP = 0
    /\ rsShards = <<>>
    /\ rsResult = [ok |-> FALSE, error |-> "none"]
    /\ rsPc = "idle"

RsIdle ==
    /\ served = NotServed
    /\ handlers = <<>>
    /\ CodecIdle

PipeInit ==
    /\ file \in SeqsUpTo(ByteVals, MaxLen)
    /\ options \in [partitions : 2..MaxD, redundancy : 1..MaxR,
                    compression : BOOLEAN, reedSolomon : BOOLEAN,
                    masterPassword : {Null, 0, 501}]
    /\ env = HealthyEnv
    /\ upc = "start"
    /\ up = NoUpload
    /\ rng = 0
    /\ clock = 0
    /\ requests = <<>>
    /\ nodes = [n \in 1..NodeCount |-> EmptyNode]
    /\ mystFile = <<>>
    /\ dpc = "idle"
    /\ dl = NoDownloadRun
    /\ output = <<>>
    /\ faults = NoFaults

Init == PipeInit /\ RsIdle

Next ==
    \/ UploadStart
    \/ \E n \in 1..NodeCount :
          /\ n \in {Len(up.filePartitions) * options.redundancy - 1,
                    Len(up.filePartitions) * options.redundancy}
          /\ UploadNodes(n)
    \/ UploadRank
    \/ UploadStore
    \/ UploadEmit
    \/ \E pw \in Passwords : DownloadStart(pw)
    \/ DownloadFetch
    \/ DownloadProcess
    \/ DownloadSave

Spec == Init /\ [][Next]_vars

(***************************************************************************)
(* The client pipeline with faults between upload and download: shards     *)
(* whose every replica is gone, a fragment altered on its node, a recovery *)
(* file whose fileHash was changed.  A run has faults of one kind.         *)
(***************************************************************************)
\* node drops fragment fragmentId: table entry and file are gone
DropFragment(node, fragmentId) ==
    [fragments |-> {f \in node.fragments : f.fragmentId # fragmentId},
     files |-> {f \in node.files : f.name # fragmentId},
     usedSpace |-> node.usedSpace]

RECURSIVE DropAll(_, _, _)
DropAll(nodeStates, fragments, k) ==
    IF k > Len(fragments) THEN nodeStates
    ELSE LET f == fragments[k]
         IN  DropAll([nodeStates EXCEPT ![f.nodeAddress] =
                        DropFragment(@, f.fragmentId)],
                     fragments, k + 1)

\* every replica of shard i becomes unretrievable
LoseShard(i) ==
    /\ upc = "done"
    /\ dpc = "idle"
    /\ i < Len(up.recoveryMap)
    /\ i \notin faults.lost
    /\ faults.tampered = {}
    /\ ~faults.manifest
    /\ ~faults.version
    /\ nodes' = DropAll(nodes, up.recoveryMap[i + 1].fragments, 1)
    /\ faults' = [faults EXCEPT !.lost = @ \cup {i}]
    /\ UNCHANGED <<file, options, env, upc, up, rng, clock, requests, mystFile,
                   dpc, dl, output, rsVars, nodeVars>>

\* byte k of the stored copy r of shard i is altered on its node
TamperFragment(i, r, k) ==
    /\ upc = "done"
    /\ dpc = "idle"
    /\ i < Len(up.recoveryMap)
    /\ r < Len(up.recoveryMap[i + 1].fragments)
    /\ faults = NoFaults
    /\ LET f == up.recoveryMap[i + 1].fragments[r + 1]
           held == ReadFile(nodes[f.nodeAddress], f.fragmentId)
       IN  /\ k <= Len(held)
           /\ nodes' = [nodes EXCEPT ![f.nodeAddress].files =
                            WriteFile(@, f.fragmentId,
                                      [held EXCEPT ![k] = Xor(@, 1)])]
    /\ faults' = [faults EXCEPT !.tampered = {<<i, r>>}]
    /\ UNCHANGED <<file, options, env, upc, up, rng, clock, requests, mystFile,
                   dpc, dl, output, rsVars, nodeVars>>

\* fileHash in the recovery file is replaced by another valid SHA-256
TamperManifest ==
    /\ upc = "done"
    /\ dpc = "idle"
    /\ faults = NoFaults
    /\ mystFile' = [mystFile EXCEPT ![Len(mystFile)].fileHash =
                        calculateChecksum(file \o <<0>>)]
    /\ faults' = [faults EXCEPT !.manifest = TRUE]
    /\ UNCHANGED <<file, options, env, upc, up, rng, clock, requests, nodes,
                   dpc, dl, output, rsVars, nodeVars>>

\* the recovery file is one of another version: the same fields, version 4.0
ChangeVersion ==
    /\ upc = "done"
    /\ dpc = "idle"
    /\ faults = NoFaults
    /\ mystFile' = [mystFile EXCEPT ![Len(mystFile)].version = "4.0"]
    /\ faults' = [faults EXCEPT !.version = TRUE]
    /\ UNCHANGED <<file, options, env, upc, up, rng, clock, requests, nodes,
                   dpc, dl, output, rsVars, nodeVars>>

FaultInit ==
    /\ PipeInit
    /\ options.masterPassword = Null
    /\ RsIdle

FaultNext ==
    \/ UploadStart
    \/ \E n \in 1..NodeCount :
          /\ n = Len(up.filePartitions) * options.redundancy
          /\ UploadNodes(n)
    \/ UploadRank
    \/ UploadStore
    \/ UploadEmit
    \/ \E i \in 0..(MaxD + ParityCount(MaxD) - 1) : LoseShard(i)
    \/ \E i \in 0..(MaxD + ParityCount(MaxD) - 1), r \in 0..(MaxR - 1),
          k \in 1..(MaxLen + 2) :
          TamperFragment(i, r, k)
    \/ TamperManifest
    \/ ChangeVersion
    \/ DownloadStart(Null)
    \/ DownloadFetch
    \/ DownloadProcess
    \/ DownloadSave

SpecFault == FaultInit /\ [][FaultNext]_vars

(***************************************************************************)
(* Codec-level specification: encode a buffer, lose shards, decode.        *)
(***************************************************************************)
\* no upload or download runs
ClientIdle ==
    /\ file = <<>>
    /\ options = [partitions |-> 2, redundancy |-> 1, compression |-> FALSE,
                  reedSolomon |-> FALSE, masterPassword |-> Null]
    /\ upc = "idle"
    /\ up = NoUpload
    /\ rng = 0
    /\ clock = 0
    /\ requests = <<>>
    /\ nodes = [n \in 1..NodeCount |-> EmptyNode]
    /\ mystFile = <<>>
    /\ dpc = "idle"
    /\ dl = NoDownloadRun
    /\ output = <<>>
    /\ faults = NoFaults

PipeIdle == ClientIdle /\ env = HealthyEnv

RsInit ==
    /\ rsData \in SeqsUpTo(RsByteVals, RsMaxLen)
    /\ rsD \in 1..RsMaxD
    /\ rsP \in 0..RsMaxP
    /\ rsShards = <<>>
    /\ rsResult = [ok |-> FALSE, error |-> "none"]
    /\ rsPc = "input"
    /\ served = NotServed
    /\ handlers = <<>>
    /\ PipeIdle

RsEncode ==
    /\ rsPc = "input"
    /\ IF encodeThrows(rsData, rsD, rsP)
       THEN /\ rsResult' = [ok |-> FALSE, error |-> "RangeError"]
            /\ rsPc' = "thrown"
            /\ UNCHANGED rsShards
       ELSE /\ rsShards' = encode(rsData, rsD, rsP)
            /\ rsPc' = "encoded"
            /\ UNCHANGED rsResult
    /\ UNCHANGED <<rsData, rsD, rsP, pipeVars, nodeVars>>

\* a shard is lost: its position in the array handed to decode is null
RsLose(j) ==
    /\ rsPc = "encoded"
    /\ ~IsNull(rsShards[j])
    /\ rsShards' = [rsShards EXCEPT ![j] = NullBuf]
    /\ UNCHANGED <<rsData, rsD, rsP, rsResult, rsPc, pipeVars, nodeVars>>

RsDecode ==
    /\ rsPc = "encoded"
    /\ rsResult' = decode(rsShards, rsD, rsP)
    /\ rsPc' = "decoded"
    /\ UNCHANGED <<rsData, rsD, rsP, rsShards, pipeVars, nodeVars>>

RsNext ==
    \/ RsEncode
    \/ \E j \in 1..(RsMaxD + RsMaxP) : j <= Len(rsShards) /\ RsLose(j)
    \/ RsDecode

SpecRS == RsInit /\ [][RsNext]_vars

(***************************************************************************)
(* The upload against nodes that fail: the node a fragment is about to be  *)
(* posted to may be unreachable for a while, and one node may answer 200   *)
(* without success and store nothing.                                      *)
(***************************************************************************)
\* the node the next /store request goes to
TargetNode == up.sortedNodes[(up.nodeIndex % Len(up.sortedNodes)) + 1].id

NodeDown(n) ==
    /\ upc = "store"
    /\ n = TargetNode
    /\ env.up[n]
    /\ FailedStores < MaxFailures
    /\ env' = [env EXCEPT !.up[n] = FALSE]
    /\ UNCHANGED <<file, options, upc, up, rng, clock, requests, nodes, mystFile,
                   dpc, dl, output, faults, rsVars, nodeVars>>

NodeUp(n) ==
    /\ upc = "store"
    /\ ~env.up[n]
    /\ env' = [env EXCEPT !.up[n] = TRUE]
    /\ UNCHANGED <<file, options, upc, up, rng, clock, requests, nodes, mystFile,
                   dpc, dl, output, faults, rsVars, nodeVars>>

NodeSilent(n) ==
    /\ upc = "store"
    /\ n = TargetNode
    /\ env.up[n]
    /\ \A m \in 1..NodeCount : ~env.silent[m]
    /\ env' = [env EXCEPT !.silent[n] = TRUE]
    /\ UNCHANGED <<file, options, upc, up, rng, clock, requests, nodes, mystFile,
                   dpc, dl, output, faults, rsVars, nodeVars>>

StoreInit ==
    /\ PipeInit
    /\ file \in {<<>>, [k \in 1..MaxLen |-> 1]}
    /\ options.partitions = 2
    /\ ~options.compression
    /\ options.masterPassword = Null
    /\ RsIdle

StoreNext ==
    \/ UploadStart
    \/ \E n \in 1..NodeCount :
          /\ n = Len(up.filePartitions) * options.redundancy
          /\ UploadNodes(n)
    \/ UploadRank
    \/ UploadStore
    \/ UploadEmit
    \/ \E n \in 1..NodeCount : NodeDown(n)
    \/ \E n \in 1..NodeCount : NodeUp(n)
    \/ \E n \in 1..NodeCount : NodeSilent(n)

SpecStore == StoreInit /\ [][StoreNext]_vars

(***************************************************************************)
(* The download against replicas that fail one by one: after the upload a  *)
(* stored copy may be dropped by its node or altered on its node's disk,   *)
(* and the node holding it may be unreachable or answer 200 without        *)
(* success.  The nodes run the first or the second server variant.         *)
(***************************************************************************)
\* copy r of shard i as the upload recorded it
Replica(i, r) == up.recoveryMap[i + 1].fragments[r + 1]

\* the copy is where the upload put it, unchanged, on a node that answers
Intact(f) ==
    /\ env.up[f.nodeAddress]
    /\ ~env.silent[f.nodeAddress]
    /\ \E g \in nodes[f.nodeAddress].files : g.name = f.fragmentId
    /\ calculateChecksum(ReadFile(nodes[f.nodeAddress], f.fragmentId)) = f.checksum

IsReplica(i, r) ==
    /\ upc = "done"
    /\ dpc = "idle"
    /\ i < Len(up.recoveryMap)
    /\ r < Len(up.recoveryMap[i + 1].fragments)
    /\ Intact(Replica(i, r))

\* the node drops the copy: /retrieve answers 404
LoseReplica(i, r) ==
    /\ IsReplica(i, r)
    /\ nodes' = [nodes EXCEPT ![Replica(i, r).nodeAddress] =
                    DropFragment(@, Replica(i, r).fragmentId)]
    /\ UNCHANGED <<file, options, env, upc, up, rng, clock, requests, mystFile,
                   dpc, dl, output, faults, rsVars, nodeVars>>

\* the first byte of the copy is altered on the node's disk
TamperReplica(i, r) ==
    /\ IsReplica(i, r)
    /\ LET f == Replica(i, r)
           held == ReadFile(nodes[f.nodeAddress], f.fragmentId)
       IN  nodes' = [nodes EXCEPT ![f.nodeAddress].files =
                        WriteFile(@, f.fragmentId, [held EXCEPT ![1] = Xor(@, 1)])]
    /\ UNCHANGED <<file, options, env, upc, up, rng, clock, requests, mystFile,
                   dpc, dl, output, faults, rsVars, nodeVars>>

\* the node holding the copy cannot be reached: axios.get rejects
ReplicaNodeDown(i, r) ==
    /\ IsReplica(i, r)
    /\ env' = [env EXCEPT !.up[Replica(i, r).nodeAddress] = FALSE]
    /\ UNCHANGED <<file, options, upc, up, rng, clock, requests, nodes, mystFile,
                   dpc, dl, output, faults, rsVars, nodeVars>>

\* the node holding the copy answers 200 with success false
ReplicaNodeSilent(i, r) ==
    /\ IsReplica(i, r)
    /\ env' = [env EXCEPT !.silent[Replica(i, r).nodeAddress] = TRUE]
    /\ UNCHANGED <<file, options, upc, up, rng, clock, requests, nodes, mystFile,
                   dpc, dl, output, faults, rsVars, nodeVars>>

ReplicaInit ==
    /\ file = [k \in 1..MaxLen |-> 1]
    /\ options \in [partitions : {2}, redundancy : 1..MaxR,
                    compression : {FALSE}, reedSolomon : {FALSE},
                    masterPassword : {Null}]
    /\ env \in {[HealthyEnv EXCEPT !.variant = [n \in 1..NodeCount |-> v]] :
                   v \in {1, 2}}
    /\ upc = "start"
    /\ up = NoUpload
    /\ rng = 0
    /\ clock = 0
    /\ requests = <<>>
    /\ nodes = [n \in 1..NodeCount |-> EmptyNode]
    /\ mystFile = <<>>
    /\ dpc = "idle"
    /\ dl = NoDownloadRun
    /\ output = <<>>
    /\ faults = NoFaults
    /\ RsIdle

ReplicaNext ==
    \/ UploadStart
    \/ \E n \in 1..NodeCount :
          /\ n = Len(up.filePartitions) * options.redundancy
          /\ UploadNodes(n)
    \/ UploadRank
    \/ UploadStore
    \/ UploadEmit
    \/ \E i \in 0..1, r \in 0..(MaxR - 1) : LoseReplica(i, r)
    \/ \E i \in 0..1, r \in 0..(MaxR - 1) : TamperReplica(i, r)
    \/ \E i \in 0..1, r \in 0..(MaxR - 1) : ReplicaNodeDown(i, r)
    \/ \E i \in 0..1, r \in 0..(MaxR - 1) : ReplicaNodeSilent(i, r)
    \/ DownloadStart(Null)
    \/ DownloadFetch
    \/ DownloadProcess
    \/ DownloadSave

SpecReplica == ReplicaInit /\ [][ReplicaNext]_vars

(***************************************************************************)
(* Node-level specification: one storage node of the first or the second   *)
(* server variant handles /store, /retrieve and /health requests from any  *)
(* client and runs its background tasks, while the bytes of a fragment     *)
(* file may drift on its disk.                                             *)
(***************************************************************************)
\* most /retrieve requests counted for one fragment in a node-level run
MaxAccess == 2
\* the length of the fragments stored in a node-level run
BlockLen == 24

\* the fragment ids and the fragment contents of a node-level run
FragmentIds == {1, 2}
Block(b) == [k \in 1..BlockLen |-> b]

\* the node of a node-level run and the server variant it runs
ThisNode == nodes[1]
Variant == env.variant[1]

\* the body of a POST /store from any client: the checksum sent is that of
\* the data or another SHA-256
AnyStoreBody(fragmentId, b, sound) ==
    [fragmentId |-> fragmentId,
     data |-> toBase64(Block(b)),
     checksum |-> IF sound THEN calculateChecksum(Block(b))
                  ELSE calculateChecksum(<<>>),
     metadata |-> [partitionIndex |-> 0, redundancyIndex |-> 0]]

\* the response object without the node it leaves
Served(op, fragmentId, body, status, success, data) ==
    [op |-> op, fragmentId |-> fragmentId, body |-> body, status |-> status,
     success |-> success, data |-> data]

\* POST /store handled by the node
NodeStore(fragmentId, b, sound) ==
    /\ LET body == AnyStoreBody(fragmentId, b, sound)
           answer == IF Variant = 1 THEN storeV1(ThisNode, body)
                     ELSE store(ThisNode, body)
       IN  /\ nodes' = [nodes EXCEPT ![1] = answer.node]
           /\ served' = Served("store", fragmentId, <<body>>, answer.status,
                               answer.success, <<>>)
    /\ UNCHANGED <<file, options, env, upc, up, rng, clock, requests, mystFile,
                   dpc, dl, output, faults, rsVars, handlers>>

\* GET /retrieve/:fragmentId handled by the node
NodeRetrieve(fragmentId) ==
    /\ (Variant = 2 /\ HasFragment(ThisNode, fragmentId)) =>
          GetFragment(ThisNode, fragmentId).accessCount < MaxAccess
    /\ LET answer == IF Variant = 1 THEN retrieveV1(ThisNode, fragmentId)
                     ELSE retrieve(ThisNode, fragmentId)
       IN  /\ nodes' = [nodes EXCEPT ![1] = answer.node]
           /\ served' = Served("retrieve", fragmentId, <<>>, answer.status,
                               answer.success, answer.data)
    /\ UNCHANGED <<file, options, env, upc, up, rng, clock, requests, mystFile,
                   dpc, dl, output, faults, rsVars, handlers>>

\* what is seen of a handler or timer task that reads the node and writes
\* nothing
Read(op) == Served(op, Null, <<>>, 200, FALSE, <<>>)

\* GET /health: reports available space, used space and the table's size
NodeHealth ==
    /\ served' = Read("health")
    /\ UNCHANGED <<file, options, env, upc, up, rng, clock, requests, nodes,
                   mystFile, dpc, dl, output, faults, rsVars, handlers>>

\* the heartbeat timer: posts available space and the table's size
NodeHeartbeat ==
    /\ served' = Read("heartbeat")
    /\ UNCHANGED <<file, options, env, upc, up, rng, clock, requests, nodes,
                   mystFile, dpc, dl, output, faults, rsVars, handlers>>

\* the hourly integrity check: re-hashes every file and logs the corrupted
NodeIntegrityCheck ==
    /\ served' = Read("integrity")
    /\ UNCHANGED <<file, options, env, upc, up, rng, clock, requests, nodes,
                   mystFile, dpc, dl, output, faults, rsVars, handlers>>

\* the disk space monitor of the second variant: logs the free space
NodeDiskMonitor ==
    /\ Variant = 2
    /\ served' = Read("disk")
    /\ UNCHANGED <<file, options, env, upc, up, rng, clock, requests, nodes,
                   mystFile, dpc, dl, output, faults, rsVars, handlers>>

\* the first byte of a fragment file changes on the node's disk
DiskDrift(fragmentId) ==
    /\ \E f \in ThisNode.files : f.name = fragmentId
    /\ <<fragmentId, 0>> \notin faults.tampered
    /\ LET held == ReadFile(ThisNode, fragmentId)
       IN  nodes' = [nodes EXCEPT ![1].files =
                        WriteFile(@, fragmentId, [held EXCEPT ![1] = Xor(@, 1)])]
    /\ faults' = [faults EXCEPT !.tampered = @ \cup {<<fragmentId, 0>>}]
    /\ UNCHANGED <<file, options, env, upc, up, rng, clock, requests, mystFile,
                   dpc, dl, output, rsVars, nodeVars>>

NodeInit ==
    /\ ClientIdle
    /\ env \in {[HealthyEnv EXCEPT !.variant = [n \in 1..NodeCount |-> v]] :
                   v \in {1, 2}}
    /\ RsIdle

NodeNext ==
    \/ \E f \in FragmentIds, b \in {1, 2}, sound \in BOOLEAN : NodeStore(f, b, sound)
    \/ \E f \in FragmentIds : NodeRetrieve(f)
    \/ NodeHealth
    \/ NodeHeartbeat
    \/ NodeIntegrityCheck
    \/ NodeDiskMonitor
    \/ \E f \in FragmentIds : DiskDrift(f)

SpecNode == NodeInit /\ [][NodeNext]_vars

(***************************************************************************)
(* One storage node under concurrent requests.  A route handler runs from  *)
(* one await to the next without interruption; between two awaits the      *)
(* handlers of other requests run.  POST /store awaits getAvailableSpace,  *)
(* checks, awaits fs.writeFile, then updates the table and the counter;    *)
(* fs.writeFile truncates the file and writes it piece by piece.           *)
(***************************************************************************)
\* the requests a node handles at the same time
MaxHandlers == 2

\* the entry this.fragments.set stores for a request body
TableEntry(variant, body) ==
    IF variant = 1
    THEN [fragmentId |-> body.fragmentId, size |-> Len(fromBase64(body.data)),
          checksum |-> body.checksum, metadata |-> body.metadata]
    ELSE [fragmentId |-> body.fragmentId, size |-> Len(fromBase64(body.data)),
          checksum |-> body.checksum, metadata |-> body.metadata,
          accessCount |-> 0]

\* POST /store up to the await of fs.writeFile: the space check and the
\* checksum check on the counter as it is now
StoreCheck(h, fragmentId, b) ==
    /\ handlers[h].pc = "idle"
    /\ LET body == AnyStoreBody(fragmentId, b, TRUE)
           fits == Len(fromBase64(body.data)) <= getAvailableSpace(ThisNode)
       IN  /\ served' = IF fits THEN served
                        ELSE Served("store", fragmentId, <<body>>, 507, FALSE, <<>>)
           /\ handlers' = IF fits
                          THEN [handlers EXCEPT ![h] =
                                  [pc |-> "write", op |-> "store",
                                   fragmentId |-> fragmentId, body |-> <<body>>,
                                   written |-> 0]]
                          ELSE handlers
    /\ UNCHANGED <<file, options, env, upc, up, rng, clock, requests, nodes,
                   mystFile, dpc, dl, output, faults, rsVars>>

\* fs.writeFile in progress: the file holds the first half of the data, then
\* all of it
StoreWrite(h) ==
    /\ handlers[h].pc = "write"
    /\ LET body == handlers[h].body[1]
           bytes == fromBase64(body.data)
           half == Len(bytes) \div 2
           sofar == IF handlers[h].written = 0 THEN SubSeq(bytes, 1, half) ELSE bytes
       IN  /\ nodes' = [nodes EXCEPT ![1].files = WriteFile(@, body.fragmentId, sofar)]
           /\ handlers' = [handlers EXCEPT
                              ![h].written = Len(sofar),
                              ![h].pc = IF Len(sofar) = Len(bytes) THEN "insert"
                                        ELSE "write"]
    /\ UNCHANGED <<file, options, env, upc, up, rng, clock, requests, mystFile,
                   dpc, dl, output, faults, rsVars, served>>

\* POST /store after fs.writeFile: fragments.set, usedSpace +=, the answer
StoreInsert(h) ==
    /\ handlers[h].pc = "insert"
    /\ LET body == handlers[h].body[1]
       IN  /\ nodes' = [nodes EXCEPT
                           ![1].fragments = MapSet(@, TableEntry(Variant, body)),
                           ![1].usedSpace = @ + Len(fromBase64(body.data))]
           /\ served' = Served("store", body.fragmentId, <<body>>, 200, TRUE, <<>>)
    /\ handlers' = [handlers EXCEPT ![h] = NoHandler]
    /\ UNCHANGED <<file, options, env, upc, up, rng, clock, requests, mystFile,
                   dpc, dl, output, faults, rsVars>>

\* GET /retrieve up to the await of fs.readFile: the second variant looks the
\* id up, answers 404 or counts the access and keeps the entry it found;
\* the first variant goes straight to the read
RetrieveLookup(h, fragmentId) ==
    /\ handlers[h].pc = "idle"
    /\ (Variant = 2 /\ HasFragment(ThisNode, fragmentId)) =>
          GetFragment(ThisNode, fragmentId).accessCount < MaxAccess
    /\ LET unknown == Variant = 2 /\ ~HasFragment(ThisNode, fragmentId)
           touched == [GetFragment(ThisNode, fragmentId) EXCEPT !.accessCount = @ + 1]
       IN  /\ served' = IF unknown
                        THEN Served("retrieve", fragmentId, <<>>, 404, FALSE, <<>>)
                        ELSE served
           /\ handlers' = IF unknown THEN handlers
                          ELSE [handlers EXCEPT ![h] =
                                  [pc |-> "read", op |-> "retrieve",
                                   fragmentId |-> fragmentId,
                                   body |-> IF Variant = 2 THEN <<touched>> ELSE <<>>,
                                   written |-> 0]]
           /\ nodes' = IF Variant = 2 /\ ~unknown
                       THEN [nodes EXCEPT ![1].fragments = MapSet(@, touched)]
                       ELSE nodes
    /\ UNCHANGED <<file, options, env, upc, up, rng, clock, requests, mystFile,
                   dpc, dl, output, faults, rsVars>>

\* GET /retrieve after fs.readFile: the first variant answers with what the
\* file holds; the second re-hashes it against the entry it found
RetrieveRead(h) ==
    /\ handlers[h].pc = "read"
    /\ LET fragmentId == handlers[h].fragmentId
           exists == \E f \in ThisNode.files : f.name = fragmentId
           data == ReadFile(ThisNode, fragmentId)
       IN  served' =
             IF ~exists
             THEN Served("retrieve", fragmentId, <<>>,
                         IF Variant = 1 THEN 404 ELSE 500, FALSE, <<>>)
             ELSE IF Variant = 2 /\ calculateChecksum(data) # handlers[h].body[1].checksum
             THEN Served("retrieve", fragmentId, <<>>, 500, FALSE, <<>>)
             ELSE Served("retrieve", fragmentId, <<>>, 200, TRUE, toBase64(data))
    /\ handlers' = [handlers EXCEPT ![h] = NoHandler]
    /\ UNCHANGED <<file, options, env, upc, up, rng, clock, requests, nodes,
                   mystFile, dpc, dl, output, faults, rsVars>>

ConcInit ==
    /\ ClientIdle
    /\ env \in {[HealthyEnv EXCEPT !.variant = [n \in 1..NodeCount |-> v]] :
                   v \in {1, 2}}
    /\ served = NotServed
    /\ handlers = [h \in 1..MaxHandlers |-> NoHandler]
    /\ CodecIdle

ConcNext ==
    \/ \E h \in 1..MaxHandlers, f \in FragmentIds, b \in {1, 2} : StoreCheck(h, f, b)
    \/ \E h \in 1..MaxHandlers : StoreWrite(h)
    \/ \E h \in 1..MaxHandlers : StoreInsert(h)
    \/ \E h \in 1..MaxHandlers, f \in FragmentIds : RetrieveLookup(h, f)
    \/ \E h \in 1..MaxHandlers : RetrieveRead(h)

SpecConc == ConcInit /\ [][ConcNext]_vars

(***************************************************************************)
(* One storage node that is stopped and started again: the new process     *)
(* begins with an empty table and a zero counter, and initialize runs      *)
(* scanExistingFragments over the storage directory before it listens.     *)
(***************************************************************************)
\* the checksum of a table entry that has none
UndefinedChecksum == [sha256 |-> NullBuf]

\* the entry {} the first variant's scan puts in the table for a file
ScannedEntry(fragmentId) ==
    [fragmentId |-> fragmentId, size |-> Null, checksum |-> UndefinedChecksum,
     metadata |-> [partitionIndex |-> Null, redundancyIndex |-> Null]]

\* the sum of stats.size over the .frag files
RECURSIVE TotalSize(_)
TotalSize(files) ==
    IF files = {} THEN 0
    ELSE LET f == CHOOSE g \in files : TRUE
         IN  Len(f.data) + TotalSize(files \ {f})

\* scanExistingFragments: usedSpace is the total size of the files; the
\* first variant fills the table with an empty entry per file, the second
\* leaves the table as the constructor made it
scanExistingFragments(variant, files) ==
    [fragments |-> IF variant = 1 THEN {ScannedEntry(f.name) : f \in files} ELSE {},
     files |-> files,
     usedSpace |-> TotalSize(files)]

\* the node process ends and a new one is constructed and initialized
NodeRestart ==
    /\ served.op # "restart"
    /\ nodes' = [nodes EXCEPT ![1] = scanExistingFragments(Variant, ThisNode.files)]
    /\ served' = Served("restart", Null, <<>>, 0, FALSE, <<>>)
    /\ UNCHANGED <<file, options, env, upc, up, rng, clock, requests, mystFile,
                   dpc, dl, output, faults, rsVars, handlers>>

RestartNext ==
    \/ \E f \in FragmentIds, b \in {1, 2}, sound \in BOOLEAN : NodeStore(f, b, sound)
    \/ \E f \in FragmentIds : NodeRetrieve(f)
    \/ NodeRestart

SpecRestart == NodeInit /\ [][RestartNext]_vars

(***************************************************************************)
(* The availability check after an upload, with storage nodes that have    *)
(* gone offline since.                                                     *)
(***************************************************************************)
\* storage node n goes offline before the check
NodeOffline(n) ==
    /\ upc = "done"
    /\ dpc = "idle"
    /\ dl.availability = NoAvailability
    /\ n <= Len(up.sortedNodes)
    /\ env.up[n]
    /\ env' = [env EXCEPT !.up[n] = FALSE]
    /\ UNCHANGED <<file, options, upc, up, rng, clock, requests, nodes, mystFile,
                   dpc, dl, output, faults, rsVars, nodeVars>>

AvailInit ==
    /\ PipeInit
    /\ file = [k \in 1..MaxLen |-> 1]
    /\ options.partitions = 2
    /\ ~options.compression
    /\ options.masterPassword = Null
    /\ RsIdle

AvailNext ==
    \/ UploadStart
    \/ \E n \in 1..NodeCount :
          /\ n = Len(up.filePartitions) * options.redundancy
          /\ UploadNodes(n)
    \/ UploadRank
    \/ UploadStore
    \/ UploadEmit
    \/ \E n \in 1..NodeCount : NodeOffline(n)
    \/ VerifyAvailability

SpecAvail == AvailInit /\ [][AvailNext]_vars

(***************************************************************************)
(* The download of a recovery file in which one entry was altered after    *)
(* the upload (the tag of a fragment descriptor, or the originalChecksum   *)
(* of a partition), with copies that their nodes have dropped.             *)
(***************************************************************************)
\* the tag of the descriptor of copy r of shard i is altered in the
\* recovery file
TamperTag(i, r) ==
    /\ upc = "done"
    /\ dpc = "idle"
    /\ ~faults.manifest
    /\ i < Len(up.recoveryMap)
    /\ r < Len(up.recoveryMap[i + 1].fragments)
    /\ LET tag == keyFromString(Replica(i, r).encryption.tag)
       IN  mystFile' = [mystFile EXCEPT
              ![Len(mystFile)].partitions[i + 1].fragments[r + 1].encryption.tag =
                  keyToString([tag EXCEPT ![Len(tag)] = Xor(@, 1)])]
    /\ faults' = [faults EXCEPT !.manifest = TRUE]
    /\ UNCHANGED <<file, options, env, upc, up, rng, clock, requests, nodes,
                   dpc, dl, output, rsVars, nodeVars>>

\* the originalChecksum of shard i is replaced by another SHA-256 in the
\* recovery file
TamperOriginalChecksum(i) ==
    /\ upc = "done"
    /\ dpc = "idle"
    /\ ~faults.manifest
    /\ i < Len(up.recoveryMap)
    /\ mystFile' = [mystFile EXCEPT
          ![Len(mystFile)].partitions[i + 1].originalChecksum =
              calculateChecksum(up.filePartitions[i + 1] \o <<0>>)]
    /\ faults' = [faults EXCEPT !.manifest = TRUE]
    /\ UNCHANGED <<file, options, env, upc, up, rng, clock, requests, nodes,
                   dpc, dl, output, rsVars, nodeVars>>

Layer2Init ==
    /\ PipeInit
    /\ file = [k \in 1..MaxLen |-> k % 2]
    /\ options.partitions = 2
    /\ ~options.compression
    /\ options.masterPassword = Null
    /\ RsIdle

Layer2Next ==
    \/ UploadStart
    \/ \E n \in 1..NodeCount :
          /\ n = Len(up.filePartitions) * options.redundancy
          /\ UploadNodes(n)
    \/ UploadRank
    \/ UploadStore
    \/ UploadEmit
    \/ \E i \in 0..2, r \in 0..(MaxR - 1) : LoseReplica(i, r)
    \/ \E i \in 0..2, r \in 0..(MaxR - 1) : TamperTag(i, r)
    \/ \E i \in 0..2 : TamperOriginalChecksum(i)
    \/ DownloadStart(Null)
    \/ DownloadFetch
    \/ DownloadProcess
    \/ DownloadSave

SpecLayer2 == Layer2Init /\ [][Layer2Next]_vars

(***************************************************************************)
(* The ranking of the candidate nodes: an upload against nodes whose ping  *)
(* takes 0 ms or longer or fails, and whose directory entry carries a      *)
(* reliability of 0 or more.                                               *)
(***************************************************************************)
\* the nodes whose latency and reliability vary
RankedNodes == 1..MaxD

\* Date.now() - start of a ping that was answered, in ms
Latencies == {0, 1, 2}

\* the reliability in a node's directory entry
Reliabilities == {0, 1, 2}

RankInit ==
    /\ file = [k \in 1..MaxLen |-> 1]
    /\ options \in [partitions : 2..MaxD, redundancy : {1},
                    compression : {FALSE}, reedSolomon : {FALSE},
                    masterPassword : {Null}]
    /\ \E u \in [RankedNodes -> BOOLEAN], l \in [RankedNodes -> Latencies],
          r \in [RankedNodes -> Reliabilities] :
          env = [up |-> [n \in 1..NodeCount |->
                            IF n \in RankedNodes THEN u[n] ELSE TRUE],
                 silent |-> HealthyEnv.silent,
                 variant |-> HealthyEnv.variant,
                 latency |-> [n \in 1..NodeCount |->
                                 IF n \in RankedNodes THEN l[n] ELSE 1],
                 reliability |-> [n \in 1..NodeCount |->
                                     IF n \in RankedNodes THEN r[n] ELSE 1]]
    /\ upc = "start"
    /\ up = NoUpload
    /\ rng = 0
    /\ clock = 0
    /\ requests = <<>>
    /\ nodes = [n \in 1..NodeCount |-> EmptyNode]
    /\ mystFile = <<>>
    /\ dpc = "idle"
    /\ dl = NoDownloadRun
    /\ output = <<>>
    /\ faults = NoFaults
    /\ RsIdle

RankNext ==
    \/ UploadStart
    \/ \E n \in 1..NodeCount :
          /\ n = Len(up.filePartitions) * options.redundancy
          /\ UploadNodes(n)
    \/ UploadRank

SpecRank == RankInit /\ [][RankNext]_vars

(***************************************************************************)
(* The upload on each of its failing paths: the file cannot be read, the   *)
(* directory does not answer or returns too few nodes, or the nodes the    *)
(* fragments are posted to fail.                                           *)
(***************************************************************************)
\* fs.readFile rejects: the catch block logs and rethrows
UploadReadFails ==
    /\ upc = "start"
    /\ up' = [up EXCEPT !.error = "ReadError"]
    /\ upc' = "failed"
    /\ UNCHANGED <<file, options, env, rng, clock, requests, nodes, mystFile,
                   dpc, dl, output, faults, rsVars, nodeVars>>

\* axios.get of /nodes rejects: the catch block logs and rethrows
UploadDirectoryFails ==
    /\ upc = "nodes"
    /\ up' = [up EXCEPT !.error = "DirectoryError"]
    /\ upc' = "failed"
    /\ UNCHANGED <<file, options, env, rng, clock, requests, nodes, mystFile,
                   dpc, dl, output, faults, rsVars, nodeVars>>

EmitNext ==
    \/ UploadReadFails
    \/ UploadStart
    \/ UploadDirectoryFails
    \/ \E n \in 1..NodeCount :
          /\ n \in {Len(up.filePartitions) * options.redundancy - 1,
                    Len(up.filePartitions) * options.redundancy}
          /\ UploadNodes(n)
    \/ UploadRank
    \/ UploadStore
    \/ UploadEmit
    \/ \E n \in 1..NodeCount : NodeDown(n)
    \/ \E n \in 1..NodeCount : NodeUp(n)
    \/ \E n \in 1..NodeCount : NodeSilent(n)

SpecEmit == StoreInit /\ [][EmitNext]_vars

(***************************************************************************)
(* The codec on shard arrays in which shards were lost and parity shards   *)
(* were altered before decode.                                             *)
(***************************************************************************)
\* the first byte of parity shard j (from 1) is altered
RsAlter(j) ==
    /\ rsPc = "encoded"
    /\ j > rsD
    /\ ~IsNull(rsShards[j])
    /\ Len(rsShards[j]) > 0
    /\ rsShards[j] = encode(rsData, rsD, rsP)[j]
    /\ rsShards' = [rsShards EXCEPT ![j][1] = Xor(@, 1)]
    /\ UNCHANGED <<rsData, rsD, rsP, rsResult, rsPc, pipeVars, nodeVars>>

DecodeNext ==
    \/ RsEncode
    \/ \E j \in 1..(RsMaxD + RsMaxP) : j <= Len(rsShards) /\ RsLose(j)
    \/ \E j \in 1..(RsMaxD + RsMaxP) : j <= Len(rsShards) /\ RsAlter(j)
    \/ RsDecode

SpecDecode == RsInit /\ [][DecodeNext]_vars

(***************************************************************************)
(* FileUtils on its own: a buffer is split into partitionCount slices and  *)
(* the slices are merged again.  The run uses the variables of the         *)
(* codec-level runs: rsData is the buffer, rsD the partition count,        *)
(* rsShards the slices and rsResult.data the merged buffer.                *)
(***************************************************************************)
SplitInit ==
    /\ rsData \in {[k \in 1..n |-> k] : n \in 0..SplitMaxLen}
    /\ rsD \in 1..SplitMaxN
    /\ rsP = 0
    /\ rsShards = <<>>
    /\ rsResult = [ok |-> FALSE, error |-> "none"]
    /\ rsPc = "input"
    /\ served = NotServed
    /\ handlers = <<>>
    /\ PipeIdle

SplitFile ==
    /\ rsPc = "input"
    /\ rsShards' = splitFile(rsData, rsD)
    /\ rsPc' = "split"
    /\ UNCHANGED <<rsData, rsD, rsP, rsResult, pipeVars, nodeVars>>

MergePartitions ==
    /\ rsPc = "split"
    /\ rsResult' = [ok |-> TRUE, data |-> mergePartitions(rsShards)]
    /\ rsPc' = "merged"
    /\ UNCHANGED <<rsData, rsD, rsP, rsShards, pipeVars, nodeVars>>

SplitNext == SplitFile \/ MergePartitions

SpecSplit == SplitInit /\ [][SplitNext]_vars

(***************************************************************************)
(* The field arithmetic on its own: two bytes are multiplied and the       *)
(* product is divided by the second.  The run uses the variables of the    *)
(* codec-level runs: rsData is <<a, b>>, rsShards holds the product and     *)
(* rsResult.data the quotient.                                             *)
(***************************************************************************)
\* the second operands of the runs; the first is any byte
Operands == {0, 1, 2, 3, 29, 142, 254, 255}

GfInit ==
    /\ rsData \in {<<a, b>> : a \in 0..(GF_SIZE - 1), b \in Operands}
    /\ rsD = 1
    /\ rsP = 0
    /\ rsShards = <<>>
    /\ rsResult = [ok |-> FALSE, error |-> "none"]
    /\ rsPc = "input"
    /\ served = NotServed
    /\ handlers = <<>>
    /\ PipeIdle

GfMultiply ==
    /\ rsPc = "input"
    /\ rsShards' = <<<<multiply(rsData[1], rsData[2])>>>>
    /\ rsPc' = "multiplied"
    /\ UNCHANGED <<rsData, rsD, rsP, rsResult, pipeVars, nodeVars>>

\* divide throws when the divisor is 0 and the dividend is not
GfDivide ==
    /\ rsPc = "multiplied"
    /\ rsResult' = IF rsShards[1][1] # 0 /\ rsData[2] = 0
                   THEN [ok |-> FALSE, error |-> "DivisionByZero"]
                   ELSE [ok |-> TRUE,
                         data |-> <<divide(rsShards[1][1], rsData[2])>>]
    /\ rsPc' = "divided"
    /\ UNCHANGED <<rsData, rsD, rsP, rsShards, pipeVars, nodeVars>>

GfNext == GfMultiply \/ GfDivide

SpecGF == GfInit /\ [][GfNext]_vars

(***************************************************************************)
(* The download with its fetch tasks running concurrently.                 *)
(* downloadFragmentsWithRetry starts one task per partition; a task asks   *)
(* the nodes of its partition one after the other and awaits each answer,  *)
(* and between two awaits the other tasks run.  Promise.all resolves when  *)
(* every task has settled.  Copies may have been dropped by their nodes    *)
(* before the download.                                                    *)
(***************************************************************************)
\* the task of the partition at position i, before its first request
NewTask(partition) ==
    [k |-> 1, settled |-> Len(partition.fragments) = 0, result |-> NoDownload]

\* the indices among 1..n, ascending, of the tasks that have settled
RECURSIVE SettledAmong(_, _)
SettledAmong(tasks, n) ==
    IF n = 0 THEN <<>>
    ELSE SettledAmong(tasks, n - 1) \o (IF tasks[n].settled THEN <<n>> ELSE <<>>)

\* results placed in the order in which the tasks settled
JoinResultsAsSettled(tasks, settled) ==
    [i \in 1..Len(tasks) |-> tasks[settled[i]].result]

\* Promise.all(downloadPromises): the value of task i at position i
JoinResults(tasks, settled) == [i \in 1..Len(tasks) |-> tasks[i].result]

\* partitionMap.map(async ...) has called every task's function
FetchBegin ==
    /\ dpc = "fetch"
    /\ LET partitionMap == dl.recoveryData[1].partitions
           tasks == [i \in 1..Len(partitionMap) |-> NewTask(partitionMap[i])]
       IN  dl' = [dl EXCEPT !.tasks = tasks,
                            !.settled = SettledAmong(tasks, Len(tasks))]
    /\ dpc' = "fetching"
    /\ UNCHANGED <<file, options, env, upc, up, rng, clock, requests, nodes,
                   mystFile, output, faults, rsVars, nodeVars>>

\* the task of the partition at position i asks the node of its next copy
\* and takes the answer: the copy is returned, or the loop goes on, or the
\* loop ends and the task returns null
FetchStep(i) ==
    /\ dpc = "fetching"
    /\ i <= Len(dl.tasks)
    /\ ~dl.tasks[i].settled
    /\ LET partition == dl.recoveryData[1].partitions[i]
           task == dl.tasks[i]
           fragment == partition.fragments[task.k]
           to == fragment.nodeAddress
           response == RetrieveResponse(to, nodes, fragment.fragmentId)
           last == task.k = Len(partition.fragments)
           after == IF Accepted(response, fragment)
                    THEN [k |-> task.k, settled |-> TRUE,
                          result |-> [present |-> TRUE, index |-> i - 1,
                                      data |-> response.data,
                                      fragment |-> fragment]]
                    ELSE [k |-> IF last THEN task.k ELSE task.k + 1,
                          settled |-> last, result |-> NoDownload]
       IN  /\ requests' = Append(requests,
                                 [path |-> "/retrieve", to |-> to,
                                  body |-> [fragmentId |-> fragment.fragmentId]])
           /\ nodes' = [nodes EXCEPT ![to] = response.node]
           /\ dl' = [dl EXCEPT !.tasks[i] = after,
                                !.settled = IF after.settled THEN Append(@, i) ELSE @]
    /\ UNCHANGED <<file, options, env, upc, up, rng, clock, mystFile, dpc,
                   output, faults, rsVars, nodeVars>>

\* every task has settled: Promise.all resolves with the results
FetchJoin ==
    /\ dpc = "fetching"
    /\ \A i \in 1..Len(dl.tasks) : dl.tasks[i].settled
    /\ dl' = [dl EXCEPT !.downloaded = JoinResults(dl.tasks, dl.settled)]
    /\ dpc' = "process"
    /\ UNCHANGED <<file, options, env, upc, up, rng, clock, requests, nodes,
                   mystFile, output, faults, rsVars, nodeVars>>

FetchNext ==
    \/ UploadStart
    \/ \E n \in 1..NodeCount :
          /\ n = Len(up.filePartitions) * options.redundancy
          /\ UploadNodes(n)
    \/ UploadRank
    \/ UploadStore
    \/ UploadEmit
    \/ \E i \in 0..2, r \in 0..(MaxR - 1) : LoseReplica(i, r)
    \/ DownloadStart(Null)
    \/ FetchBegin
    \/ \E i \in 1..(MaxD + ParityCount(MaxD)) : FetchStep(i)
    \/ FetchJoin
    \/ DownloadProcess
    \/ DownloadSave

SpecFetch == Layer2Init /\ [][FetchNext]_vars

(***************************************************************************)
(* Properties of the upload and download pipeline and of the codec.        *)
(***************************************************************************)
\* a download has run to its end: it saved the file or it threw
DownloadEnded == dpc \in {"done", "failed"}

\* the recovery file the download read
Manifest == dl.recoveryData[1]

\* C1: with every node healthy and the password the upload was protected
\* with (any password when it was not protected), a download of the emitted
\* recovery file ends by writing exactly the uploaded bytes, also when the
\* last data shard was zero-padded.
C1_RoundTrip ==
    (/\ DownloadEnded
     /\ Truthy(options.masterPassword) => dl.masterPassword = options.masterPassword)
    => (dpc = "done" /\ output = <<file>>)

\* the length of the buffer handed to the erasure layer at upload
ProcessedLength == IF options.compression THEN Len(file) + 2 ELSE Len(file)

\* C2: with Reed-Solomon on, a download in which every replica of at least
\* one and at most P shards is gone, and nothing else is wrong, still ends by
\* writing the uploaded bytes.  Stated for buffers that split into D shards
\* without padding, where the healthy round trip of C1 works.
C2_LossTolerance ==
    (/\ DownloadEnded
     /\ options.reedSolomon
     /\ ProcessedLength % options.partitions = 0
     /\ faults.lost # {}
     /\ Cardinality(faults.lost) <= up.parityShards
     /\ faults.tampered = {}
     /\ ~faults.manifest)
    => (dpc = "done" /\ output = <<file>>)

\* the number of null positions of the shard array handed to decode
RsNulls == Cardinality({j \in 1..Len(rsShards) : IsNull(rsShards[j])})

\* C3: decode on an encode output of which at most P positions were set to
\* null returns the byte-concatenation of the D data shards as encoded.
C3_CodecRecovery ==
    (rsPc = "decoded" /\ RsNulls <= rsP)
    => (/\ rsResult.ok
        /\ rsResult.data = BufferConcat(SubSeq(encode(rsData, rsD, rsP), 1, rsD)))

\* the number of shards that survived layer-2 decryption
ValidShards == Len(FilterNonNull(dl.fragmentDecrypted))

\* C4: with Reed-Solomon on, when a data shard is missing and fewer than D
\* positions are non-null, decode fails with InsufficientShards (have = the
\* non-null count, need = D), the download ends with that error and nothing
\* is written.
C4_InsufficientShards ==
    (/\ DownloadEnded
     /\ dl.fragmentDecrypted # <<>>
     /\ Manifest.reedSolomon
     /\ MissingIndices(dl.fragmentDecrypted, up.dataShards) # {}
     /\ ValidShards < up.dataShards)
    => (/\ decode(dl.fragmentDecrypted, Manifest.reedSolomonConfig.dataShards,
                  Manifest.reedSolomonConfig.parityShards)
             = [ok |-> FALSE, error |-> "InsufficientShards",
                have |-> ValidShards, need |-> up.dataShards]
        /\ dpc = "failed"
        /\ dl.error = [kind |-> "InsufficientShards",
                       have |-> ValidShards, need |-> up.dataShards]
        /\ output = <<>>)

C4_Witness ==
    /\ dpc = "failed"
    /\ dl.error.kind = "InsufficientShards"
    /\ Cardinality(faults.lost) > up.parityShards
    /\ ValidShards > 0

\* C5: the output is written at most once, and only when the reconstructed
\* buffer matched encryptedHash, the master decryption authenticated and the
\* plaintext matched fileHash of the recovery file as read; a failed
\* download, and one on a recovery file whose fileHash was altered, writes
\* nothing.
C5_WriteAfterChecks ==
    /\ Len(output) <= 1
    /\ dpc = "failed" => output = <<>>
    /\ (faults.manifest /\ dpc # "idle") => output = <<>>
    /\ output # <<>> =>
          LET me == Manifest.security.masterEncryption
              dec == decrypt(dl.masterEncryptedBuffer,
                             DownloadMasterKey(me, dl.masterPassword),
                             keyFromString(me.iv), keyFromString(me.tag))
          IN  /\ calculateChecksum(dl.masterEncryptedBuffer) = me.encryptedHash
              /\ dec.ok
              /\ output[1] = dec.data
              /\ calculateChecksum(output[1]) = Manifest.fileHash

C5_Witness ==
    /\ faults.manifest
    /\ dpc = "failed"
    /\ dl.error.kind = "FileHashMismatch"
    /\ dl.masterEncryptedBuffer # <<>>

\* a stored fragment was altered, Reed-Solomon is off and every shard has
\* one replica
TamperCase ==
    /\ DownloadEnded
    /\ ~options.reedSolomon
    /\ options.redundancy = 1
    /\ faults.tampered # {}

\* C6 as stated: after a byte of a stored fragment's ciphertext is altered
\* (Reed-Solomon off, one replica) the download fails before any output is
\* written, with the layer-2 authentication failure.
C6_TamperAuthenticationFailed ==
    TamperCase
    => (dpc = "failed" /\ output = <<>> /\ dl.error.kind = "AuthenticationFailed")

\* C6: after a byte of a stored fragment's ciphertext is altered (Reed-
\* Solomon off, one replica) the download fails before any output is
\* written; the altered copy is refused when it is fetched, so its
\* partition counts as missing and the error is the missing-partitions
\* error with one partition short.
C6_TamperMissingPartition ==
    TamperCase
    => (/\ dpc = "failed"
        /\ output = <<>>
        /\ \A t \in faults.tampered : ~dl.downloaded[t[1] + 1].present
        /\ dl.error = [kind |-> "MissingPartitions",
                       have |-> Len(Manifest.partitions) - 1,
                       need |-> Len(Manifest.partitions)])

C6_Witness ==
    /\ TamperCase
    /\ dpc = "failed"
    /\ \E q \in 1..Len(requests) : requests[q].path = "/retrieve"

\* C7: for an upload protected with a non-empty password, a download with
\* that password ends by writing the uploaded bytes, one with another
\* non-empty password fails with IncorrectPassword and writes nothing, and
\* one with no password writes nothing.
C7_PasswordBinding ==
    (DownloadEnded /\ Truthy(options.masterPassword))
    => (/\ dl.masterPassword = options.masterPassword
              => (dpc = "done" /\ output = <<file>>)
        /\ (Truthy(dl.masterPassword) /\ dl.masterPassword # options.masterPassword)
              => (/\ dpc = "failed"
                  /\ dl.error.kind = "IncorrectPassword"
                  /\ output = <<>>)
        /\ ~Truthy(dl.masterPassword) => output = <<>>)

\* C8: downloadFile on a password-protected recovery file with a missing or
\* empty password fails with PasswordRequired before any /retrieve request
\* is sent and before anything is written.
C8_PasswordRequiredFirst ==
    (/\ dpc # "idle"
     /\ Manifest.security.masterEncryption.passwordProtected
     /\ ~Truthy(dl.masterPassword))
    => (/\ dpc = "failed"
        /\ dl.error.kind = "PasswordRequired"
        /\ \A q \in 1..Len(requests) : requests[q].path # "/retrieve"
        /\ output = <<>>)

C8_Witness ==
    /\ dpc = "failed"
    /\ dl.error.kind = "PasswordRequired"
    /\ dl.masterPassword = 0
    /\ \E q \in 1..Len(requests) : requests[q].path = "/store"

\* the secret numbers of an upload: everything drawn from the random source
\* (keys, salts, IVs), the master key, the derived fragment keys and the
\* password
SecretNumbers ==
    {randomBytes(k) : k \in 1..rng}
    \cup (IF upc = "start" THEN {} ELSE {up.masterKey})
    \cup {pbkdf2Sync(keyFromString(d.encryption.key),
                     keyFromString(d.encryption.salt), 10000) :
            d \in {up.recoveryMap[k].fragments[j] :
                      k \in 1..Len(up.recoveryMap), j \in 1..options.redundancy}}
    \cup (IF Truthy(options.masterPassword) THEN {options.masterPassword} ELSE {})

\* the authentication tags of an upload
SecretTags ==
    (IF upc = "start" THEN {} ELSE {up.masterTag})
    \cup {keyFromString(d.encryption.tag) :
            d \in {up.recoveryMap[k].fragments[j] :
                      k \in 1..Len(up.recoveryMap), j \in 1..options.redundancy}}

\* the fields a request may have, and the numbers and byte strings it carries
PublicShape(req) ==
    CASE req.path = "/nodes" -> DOMAIN req.body = {"count", "minSpace"}
      [] req.path = "/ping" -> DOMAIN req.body = {"none"}
      [] req.path = "/store" ->
            /\ DOMAIN req.body = {"fragmentId", "data", "checksum", "metadata"}
            /\ DOMAIN req.body.metadata =
                  {"fileHash", "partitionIndex", "redundancyIndex",
                   "doubleEncrypted", "timestamp"}
      [] req.path = "/retrieve" -> DOMAIN req.body = {"fragmentId"}

RequestNumbers(req) ==
    CASE req.path = "/nodes" -> {req.body.count, req.body.minSpace}
      [] req.path = "/store" ->
            {req.body.metadata.partitionIndex, req.body.metadata.redundancyIndex,
             req.body.metadata.timestamp}
            \cup {fromBase64(req.body.data)[k] :
                    k \in 1..Len(fromBase64(req.body.data))}
      [] OTHER -> {}

RequestBytes(req) ==
    IF req.path = "/store"
    THEN {req.body.data, fromBase64(req.body.data)}
    ELSE {}

\* C9: no request of an upload (/nodes, /ping, /store body and metadata)
\* carries the master key, the password, the password salt, or a fragment's
\* raw key, derived key, salt, IV or tag: a request has only its public
\* fields, and none of its values is one of the secrets.
C9_NoSecretLeaves ==
    \A q \in 1..Len(requests) :
        /\ PublicShape(requests[q])
        /\ RequestNumbers(requests[q]) \cap SecretNumbers = {}
        /\ RequestBytes(requests[q]) \cap SecretTags = {}

C9_Witness ==
    /\ upc = "done"
    /\ Truthy(options.masterPassword)
    /\ \E q \in 1..Len(requests) :
          /\ requests[q].path = "/store"
          /\ requests[q].body.data # <<>>

\* C10: in every emitted recovery file exactly one of masterEncryption.key
\* and masterEncryption.salt is non-null; key is null, salt is non-null and
\* keyDerivation is PBKDF2 exactly when passwordProtected is true, which is
\* exactly when the masterPassword option is a non-empty string.
C10_MasterKeyManifest ==
    \A m \in 1..Len(mystFile) :
        LET me == mystFile[m].security.masterEncryption
        IN  /\ (me.key = NullString) # (me.salt = NullString)
            /\ (me.key = NullString) <=> me.passwordProtected
            /\ (me.salt # NullString) <=> me.passwordProtected
            /\ (me.keyDerivation = "PBKDF2") <=> me.passwordProtected
            /\ me.keyDerivation \in {"PBKDF2", "RANDOM"}
            /\ me.passwordProtected <=> Truthy(options.masterPassword)
            /\ ~me.passwordProtected => keyFromString(me.key) = up.masterKey

C10_Witness ==
    /\ Len(mystFile) = 1
    /\ mystFile[1].security.masterEncryption.passwordProtected
    /\ mystFile[1].security.masterEncryption.key = NullString

\* C11: downloadFile on a recovery file whose version is not "3.0" fails
\* with UnsupportedManifest before any fragment is fetched.
C11_VersionGate ==
    (dpc # "idle" /\ Manifest.version # "3.0")
    => (/\ dpc = "failed"
        /\ dl.error.kind = "UnsupportedManifest"
        /\ \A q \in 1..Len(requests) : requests[q].path # "/retrieve")

\* the nodes an upload needs: one per shard and replica
RequiredNodes == Len(up.filePartitions) * options.redundancy

\* C13: when the directory returned fewer than (number of shards) * R nodes,
\* uploadFile has failed with InsufficientNodes, no /store request was sent
\* and no recovery file was written.
C13_InsufficientNodes ==
    (upc \notin {"start", "nodes"} /\ Len(up.availableNodes) < RequiredNodes)
    => (/\ upc = "failed"
        /\ up.error = "InsufficientNodes"
        /\ \A q \in 1..Len(requests) : requests[q].path # "/store"
        /\ mystFile = <<>>)

C13_Witness ==
    /\ upc = "failed"
    /\ up.error = "InsufficientNodes"
    /\ Len(up.availableNodes) = RequiredNodes - 1
    /\ \E q \in 1..Len(requests) : requests[q].path = "/nodes"

\* the slot (shard, replica) a /store request is for
SlotOf(req) == <<req.body.metadata.partitionIndex, req.body.metadata.redundancyIndex>>

\* the node after id in the ranked list, the first after the last
NextRanked(id) ==
    LET k == CHOOSE j \in 1..Len(up.sortedNodes) : up.sortedNodes[j].id = id
    IN  up.sortedNodes[(k % Len(up.sortedNodes)) + 1].id

\* the slot the loops reach after slot: the next replica, or the first
\* replica of the next shard
NextSlot(slot) ==
    IF slot[2] + 1 = options.redundancy THEN <<slot[1] + 1, 0>>
    ELSE <<slot[1], slot[2] + 1>>

\* C14: when a /store request for a slot failed, the next request is for
\* the same slot and goes to the next node of the ranked list; the shard
\* index advances only when the slot succeeded.
C14_RetryNextNode ==
    \A q \in 1..(Len(requests) - 1) :
        (requests[q].path = "/store" /\ requests[q + 1].path = "/store")
        => (/\ SlotOf(requests[q + 1]) \in {SlotOf(requests[q]),
                                            NextSlot(SlotOf(requests[q]))}
            /\ SlotOf(requests[q + 1]) = SlotOf(requests[q])
                  => requests[q + 1].to = NextRanked(requests[q].to))

\* the /store requests sent for the shard the loop is at
ShardAttempts ==
    Cardinality({q \in StoreRequests :
                    requests[q].body.metadata.partitionIndex = up.i})

\* C15: when every store attempt for a shard has failed and 2*R attempts
\* were made for it, the upload has ended in DistributionFailed.
C15_BoundedRetries ==
    (up.r = 0 /\ up.fragments = <<>> /\ ShardAttempts >= 2 * options.redundancy)
    => (upc = "failed" /\ up.error = "DistributionFailed")

\* C16: a fragment descriptor is recorded only when the answer to the
\* /store request was HTTP 2xx with success = true.
C16_StoreAcknowledged ==
    [][up'.totalEncryptions > up.totalEncryptions
          => (/\ up'.response.status >= 200
              /\ up'.response.status < 300
              /\ up'.response.success)]_vars

\* the shape of a recovery map: records with index 0, 1, 2, ... and in each
\* record R descriptors with redundancyIndex 0 .. R-1
WellShaped(recoveryMap, shards) ==
    /\ Len(recoveryMap) = shards
    /\ \A k \in 1..Len(recoveryMap) :
          /\ recoveryMap[k].index = k - 1
          /\ Len(recoveryMap[k].fragments) = options.redundancy
          /\ \A j \in 1..Len(recoveryMap[k].fragments) :
                recoveryMap[k].fragments[j].redundancyIndex = j - 1

\* C17: the recovery map of a successful upload, and the partitions of the
\* recovery file it writes, hold D+P records (D without Reed-Solomon) in
\* index order, each with R descriptors in redundancyIndex order, whatever
\* number of store attempts failed on the way.
C17_ManifestShape ==
    /\ upc \in {"emit", "done"} =>
          WellShaped(up.recoveryMap,
                     IF options.reedSolomon
                     THEN options.partitions + ParityCount(options.partitions)
                     ELSE options.partitions)
    /\ \A m \in 1..Len(mystFile) :
          /\ mystFile[m].partitions = up.recoveryMap
          /\ WellShaped(mystFile[m].partitions,
                        IF mystFile[m].reedSolomon
                        THEN mystFile[m].reedSolomonConfig.totalShards
                        ELSE options.partitions)

C17_Witness ==
    /\ upc = "done"
    /\ Len(mystFile) = 1
    /\ options.reedSolomon
    /\ options.redundancy > 1
    /\ FailedStores > 1

\* the /retrieve requests sent for the copies of one partition, in the order
\* they were sent
RetrieveRequests(descriptors) ==
    LET ids == {descriptors[k].fragmentId : k \in 1..Len(descriptors)}
        Asked(q) == q.path = "/retrieve" /\ q.body.fragmentId \in ids
    IN  SelectSeq(requests, Asked)

\* copy k of the list can be taken: its node answers success with bytes
\* whose SHA-256 is the descriptor's checksum
ReplicaGood(descriptors, k) ==
    LET d == descriptors[k]
        answer == RetrieveResponse(d.nodeAddress, nodes, d.fragmentId)
    IN  /\ answer.status \in 200..299
        /\ answer.success
        /\ calculateChecksum(fromBase64(answer.data)) = d.checksum

\* the first copy of the list that can be taken, 0 when none can
FirstGood(descriptors) ==
    IF \E k \in 1..Len(descriptors) : ReplicaGood(descriptors, k)
    THEN CHOOSE k \in 1..Len(descriptors) :
            /\ ReplicaGood(descriptors, k)
            /\ \A j \in 1..(k - 1) : ~ReplicaGood(descriptors, j)
    ELSE 0

\* C12: once the fragments are fetched, for each partition the /retrieve
\* requests are exactly its descriptors in manifest order up to the first
\* copy whose node answers success with bytes matching the descriptor's
\* checksum, that copy is the one kept, nothing after it is requested, and
\* the partition is missing exactly when every listed copy failed (node
\* unreachable, 404, 500, success false or checksum mismatch).
C12_ReplicaFallback ==
    dpc \in {"process", "save", "done", "failed"} =>
        \A p \in 1..Len(Manifest.partitions) :
            LET descriptors == Manifest.partitions[p].fragments
                first == FirstGood(descriptors)
                last == IF first = 0 THEN Len(descriptors) ELSE first
                asked == RetrieveRequests(descriptors)
                got == dl.downloaded[p]
            IN  /\ Len(asked) = last
                /\ \A k \in 1..last :
                      /\ asked[k].body.fragmentId = descriptors[k].fragmentId
                      /\ asked[k].to = descriptors[k].nodeAddress
                /\ got.present = (first # 0)
                /\ first # 0 =>
                      /\ got.fragment = descriptors[first]
                      /\ got.index = p - 1
                      /\ calculateChecksum(fromBase64(got.data)) =
                            descriptors[first].checksum

\* C12 witness: a fetch in which one partition's first copy was answered
\* with success but altered bytes and its second copy was taken, while
\* every copy of the other partition failed in a different way.
C12_Witness ==
    /\ dpc = "process"
    /\ options.redundancy = 2
    /\ \E p, q \in 1..Len(Manifest.partitions) :
          LET dp == Manifest.partitions[p].fragments
              dq == Manifest.partitions[q].fragments
              first == RetrieveResponse(dp[1].nodeAddress, nodes, dp[1].fragmentId)
          IN  /\ p # q
              /\ first.success
              /\ calculateChecksum(fromBase64(first.data)) # dp[1].checksum
              /\ dl.downloaded[p].present
              /\ dl.downloaded[p].fragment = dp[2]
              /\ Len(RetrieveRequests(dp)) = 2
              /\ ~env.up[dq[1].nodeAddress]
              /\ ~HasFragment(nodes[dq[2].nodeAddress], dq[2].fragmentId)
              /\ ~dl.downloaded[q].present
              /\ Len(RetrieveRequests(dq)) = 2

\* a step of the node's own handlers and timers: nothing drifted on disk
HandlerStep == faults' = faults

\* C18: a POST /store whose decoded data is larger than the node's
\* available space is answered 507, one that fits but whose recomputed
\* SHA-256 differs from the supplied checksum is answered 400, and a store
\* answered 507 or 400 leaves the fragment table, the used-space counter and
\* the files of the node exactly as they were, in both server variants.
C18_RejectedStoreFrame ==
    [][(HandlerStep /\ served'.op = "store") =>
          LET body == served'.body[1]
              bytes == fromBase64(body.data)
              tooLarge == Len(bytes) > getAvailableSpace(ThisNode)
              mismatch == calculateChecksum(bytes) # body.checksum
          IN  /\ tooLarge => served'.status = 507
              /\ (~tooLarge /\ mismatch) => served'.status = 400
              /\ served'.status \in {400, 507} => nodes' = nodes]_vars

\* C18 witness: a node that holds two fragments has answered a /store with
\* 507.
C18_Witness ==
    /\ served.op = "store"
    /\ served.status = 507
    /\ Cardinality(ThisNode.fragments) = 2
    /\ ThisNode.usedSpace = 2 * BlockLen

\* C19: GET /retrieve/{id} answers 404 for an id the node does not hold,
\* answers success only with bytes whose SHA-256 is the checksum recorded
\* when the id was stored, and answers 500 when the stored bytes have
\* drifted from that checksum.
C19_RetrieveIntegrity ==
    [][(HandlerStep /\ served'.op = "retrieve") =>
          LET id == served'.fragmentId
              held == HasFragment(ThisNode, id)
              recorded == GetFragment(ThisNode, id).checksum
          IN  /\ ~held => served'.status = 404
              /\ served'.success =>
                    /\ held
                    /\ calculateChecksum(fromBase64(served'.data)) = recorded
              /\ (held /\ calculateChecksum(ReadFile(ThisNode, id)) # recorded) =>
                    served'.status = 500]_vars

\* C20: once a fragment id is held by the node, no /store, /retrieve,
\* /health or timer step changes the bytes on disk or the checksum recorded
\* for it.
C20_WriteOnce ==
    [][HandlerStep =>
          \A f \in FragmentIds :
              HasFragment(ThisNode, f) =>
                  /\ HasFragment(nodes'[1], f)
                  /\ GetFragment(nodes'[1], f).checksum =
                        GetFragment(ThisNode, f).checksum
                  /\ ReadFile(nodes'[1], f) = ReadFile(ThisNode, f)]_vars

\* C21: under every interleaving of concurrent POST /store requests on one
\* node the used-space counter never exceeds the configured maximum storage.
C21_UsedSpaceBounded == ThisNode.usedSpace <= MaxStorage

\* the bytes are all the bytes of some /store request
CompleteBytes(bytes) == \E b \in {1, 2} : bytes = Block(b)

\* C24: a /retrieve answered with success carries the complete bytes of a
\* /store of its id, never a file that was being written, also when it runs
\* while a /store of the same id is in progress.
C24_NoPartialRead ==
    (served.op = "retrieve" /\ served.success) =>
        CompleteBytes(fromBase64(served.data))

\* what GET /retrieve/id would be answered by the node in state node
RetrieveAnswer(node, fragmentId) ==
    IF Variant = 1 THEN retrieveV1(node, fragmentId) ELSE retrieve(node, fragmentId)

\* C22: when a node restarts, every fragment its table held before the
\* restart is in the table after initialize with a defined checksum, and
\* GET /retrieve for its id is answered success with the stored bytes.
C22_RestartKeepsFragments ==
    [][served'.op = "restart" =>
          \A f \in FragmentIds :
              HasFragment(ThisNode, f) =>
                  /\ HasFragment(nodes'[1], f)
                  /\ GetFragment(nodes'[1], f).checksum # UndefinedChecksum
                  /\ RetrieveAnswer(nodes'[1], f).success
                  /\ fromBase64(RetrieveAnswer(nodes'[1], f).data) =
                        ReadFile(ThisNode, f)]_vars

\* the partitions of which at least one fragment's node answers the ping
ReachablePartitions(recoveryData) ==
    {p \in 1..Len(recoveryData.partitions) :
        \E k \in 1..Len(recoveryData.partitions[p].fragments) :
            env.up[recoveryData.partitions[p].fragments[k].nodeAddress]}

\* C23: verifyAvailability returns recoverable = true exactly when the
\* partitions with at least one fragment whose node answered the ping are
\* at least D in number when the recovery file has a Reed-Solomon config,
\* or are all the partitions when it has none.
C23_AvailabilityVerdict ==
    dl.availability # NoAvailability =>
        LET recoveryData == mystFile[Len(mystFile)]
            reachable == Cardinality(ReachablePartitions(recoveryData))
        IN  dl.availability.recoverable =
                IF recoveryData.reedSolomonConfig # NullConfig
                THEN reachable >= recoveryData.reedSolomonConfig.dataShards
                ELSE reachable = Len(recoveryData.partitions)

\* the download has run its processing stage
Processed == dpc \in {"save", "done", "failed"} /\ dl.fragmentDecrypted # <<>>

\* the buffer the reconstruction of the download yields, before decompression
Reconstructed == Reconstruct(Manifest, dl.fragmentDecrypted)

\* C25 as stated: the SHA-256 comparison against encryptedHash is applied to
\* the reconstructed buffer before decompression, so a download whose
\* reconstructed buffer does not hash to encryptedHash is aborted.
C25_HashBeforeDecompress ==
    (Processed /\ Reconstructed.error = NoError) =>
        (calculateChecksum(Reconstructed.buffer)
                # Manifest.security.masterEncryption.encryptedHash
            => dl.error.kind = "MasterIntegrityFailed")

\* C25 amended: the comparison is applied to the buffer after decompression
\* (to the reconstructed buffer itself when the file is not compressed); a
\* failed decompression aborts the download first, a mismatch aborts it
\* with nothing written, and no other download is aborted for this reason.
C25_HashAfterDecompress ==
    (Processed /\ Reconstructed.error = NoError) =>
        LET d == Decompress(Manifest, Reconstructed.buffer)
            hash == Manifest.security.masterEncryption.encryptedHash
        IN  /\ d.error # NoError => dl.error = d.error
            /\ d.error = NoError =>
                  ((calculateChecksum(d.buffer) # hash)
                      <=> dl.error.kind = "MasterIntegrityFailed")
            /\ dl.error.kind = "MasterIntegrityFailed" => output = <<>>

\* C25 witness: a download of a compressed file has finished; its
\* reconstructed buffer does not hash to encryptedHash, the decompressed
\* buffer does.
C25_Witness ==
    /\ dpc = "done"
    /\ Manifest.compressed
    /\ calculateChecksum(Reconstructed.buffer)
            # Manifest.security.masterEncryption.encryptedHash
    /\ calculateChecksum(dl.masterEncryptedBuffer)
            = Manifest.security.masterEncryption.encryptedHash

\* layer-2 decryption of the copy fetched for a partition, under the key
\* derived from the raw key and salt of its descriptor, its IV and its tag
Layer2Decrypt(got) ==
    LET encryption == got.fragment.encryption
        rawKey == keyFromString(encryption.key)
        key == IF encryption.salt # NullString
               THEN pbkdf2Sync(rawKey, keyFromString(encryption.salt), 10000)
               ELSE rawKey
    IN  decrypt(fromBase64(got.data), key, keyFromString(encryption.iv),
                keyFromString(encryption.tag))

\* the copy fetched for partition i authenticates and its plaintext hashes
\* to the partition's originalChecksum
Layer2Good(i) ==
    /\ dl.downloaded[i].present
    /\ Layer2Decrypt(dl.downloaded[i]).ok
    /\ calculateChecksum(Layer2Decrypt(dl.downloaded[i]).data)
            = Manifest.partitions[i].originalChecksum

\* C26: decryptFragmentLayer returns one position per manifest partition;
\* position i holds the decrypted bytes of partition i when the copy fetched
\* for it authenticates under its derived key, IV and tag and hashes to the
\* partition's originalChecksum, and null in every other case (no copy, AEAD
\* failure, checksum mismatch); a null never shifts another shard.
C26_Layer2KeepsIndices ==
    Processed =>
        /\ Len(dl.fragmentDecrypted) = Len(Manifest.partitions)
        /\ \A i \in 1..Len(Manifest.partitions) :
              IF Layer2Good(i)
              THEN /\ dl.fragmentDecrypted[i] = Layer2Decrypt(dl.downloaded[i]).data
                   /\ dl.fragmentDecrypted[i] = up.filePartitions[i]
              ELSE dl.fragmentDecrypted[i] = NullBuf

\* C26 witness: the copy fetched for the first partition failed its AEAD
\* check, position 1 is null and position 2 holds the second partition.
C26_Witness ==
    /\ Processed
    /\ dl.downloaded[1].present
    /\ ~Layer2Decrypt(dl.downloaded[1]).ok
    /\ dl.fragmentDecrypted[1] = NullBuf
    /\ dl.fragmentDecrypted[2] = up.filePartitions[2]

\* the partitions one after the other in index order
RECURSIVE InIndexOrder(_)
InIndexOrder(partitions) ==
    IF partitions = <<>> THEN <<>>
    ELSE Head(partitions) \o InIndexOrder(Tail(partitions))

\* some partition is missing after fetch and layer-2 decryption
SomeMissing == \E i \in 1..Len(dl.fragmentDecrypted) : dl.fragmentDecrypted[i] = NullBuf

\* C27: when the recovery file has Reed-Solomon disabled or no Reed-Solomon
\* config, a download in which a partition is missing after fetch and
\* layer-2 decryption fails with nothing written; otherwise the
\* master-ciphertext buffer is the partitions concatenated in index order.
C27_NonRsReconstruction ==
    (Processed /\ ~(Manifest.reedSolomon /\ Manifest.reedSolomonConfig # NullConfig)) =>
        IF SomeMissing
        THEN /\ dpc = "failed"
             /\ dl.error.kind = "MissingPartitions"
             /\ output = <<>>
        ELSE /\ Reconstructed.error = NoError
             /\ Reconstructed.buffer = InIndexOrder(dl.fragmentDecrypted)
             /\ Reconstructed.buffer = InIndexOrder(up.filePartitions)
             /\ ~Manifest.compressed =>
                   dl.masterEncryptedBuffer = InIndexOrder(up.filePartitions)

\* C27 witness: a download without Reed-Solomon has failed with one of two
\* partitions missing.
C27_Witness ==
    /\ dpc = "failed"
    /\ ~Manifest.reedSolomon
    /\ dl.fragmentDecrypted[1] # NullBuf
    /\ dl.fragmentDecrypted[2] = NullBuf
    /\ dl.error = [kind |-> "MissingPartitions", have |-> 1, need |-> 2]

\* the ping of the node was answered
Measured(n) == env.up[n.id]

\* the score the ranking is said to use puts a strictly before b: a failed
\* ping is infinitely slow, a measured latency counts as measured, and a
\* reliability of 0 counts as a positive minimum (the same for every node)
RankedStrictlyBefore(a, b) ==
    IF ~Measured(a) THEN FALSE
    ELSE IF ~Measured(b) THEN TRUE
    ELSE IF a.reliability > 0 /\ b.reliability > 0
    THEN env.latency[a.id] * b.reliability < env.latency[b.id] * a.reliability
    ELSE IF a.reliability = 0 /\ b.reliability = 0
    THEN env.latency[a.id] < env.latency[b.id]
    ELSE env.latency[a.id] = 0 /\ env.latency[b.id] > 0

\* C28: the ranked node list is in ascending order of latency / reliability,
\* with a failed ping infinitely slow, a measured latency used as measured
\* (0 ms included) and a reliability of 0 clamped to a positive minimum: no
\* node stands behind a node of strictly higher score.
C28_RankedByScore ==
    upc = "store" =>
        \A j \in 1..Len(up.sortedNodes) : \A k \in 1..Len(up.sortedNodes) :
            j < k => ~RankedStrictlyBefore(up.sortedNodes[k], up.sortedNodes[j])

\* the number of /store requests sent before request q
StoreIndex(q) == Cardinality({p \in StoreRequests : p < q})

\* ranked node number k mod |nodes|, counting from 0
RankedNode(k) == up.sortedNodes[(k % Len(up.sortedNodes)) + 1]

\* C29: while every /store has succeeded on its first attempt, the k-th
\* /store request (k from 0) carries copy k mod R of shard k div R and goes
\* to ranked node number k mod |nodes|, and the descriptor of copy r of
\* shard i names ranked node number (i * R + r) mod |nodes|.
C29_RoundRobinPlacement ==
    (upc \in {"store", "emit", "done"} /\ FailedStores = 0) =>
        /\ \A q \in StoreRequests :
              /\ requests[q].to = RankedNode(StoreIndex(q)).id
              /\ requests[q].body.metadata.partitionIndex =
                    StoreIndex(q) \div options.redundancy
              /\ requests[q].body.metadata.redundancyIndex =
                    StoreIndex(q) % options.redundancy
        /\ \A i \in 0..(Len(up.recoveryMap) - 1) :
              \A r \in 0..(Len(up.recoveryMap[i + 1].fragments) - 1) :
                  /\ r < options.redundancy
                  /\ Replica(i, r).nodeId =
                        RankedNode(i * options.redundancy + r).id

\* C29 witness: an upload with R = 2 has ended without a failed /store, and
\* the second copy of the second shard went to the fourth ranked node.
C29_Witness ==
    /\ upc = "done"
    /\ FailedStores = 0
    /\ options.redundancy = 2
    /\ Len(up.recoveryMap) >= 2
    /\ Cardinality(StoreRequests) = Len(up.recoveryMap) * 2
    /\ Replica(1, 1).nodeId = up.sortedNodes[4].id
    /\ \E q \in StoreRequests :
          /\ StoreIndex(q) = 3
          /\ requests[q].to = up.sortedNodes[4].id

\* the fragment descriptors of a recovery file, each with its place
DescriptorsOf(recoveryData) ==
    {<<i, r>> \in (1..Len(recoveryData.partitions)) \X (1..MaxR) :
        r <= Len(recoveryData.partitions[i].fragments)}

DescriptorAt(recoveryData, at) == recoveryData.partitions[at[1]].fragments[at[2]]

\* the key, IV and salt a descriptor records
Secrets(f) == <<f.encryption.key, f.encryption.iv, f.encryption.salt>>

\* the key and the IV that went into the fragmentId of a /store request
AttemptSecrets(q) ==
    LET hashed == requests[q].body.fragmentId.sha256
    IN  <<hashed[Len(hashed) - 4], hashed[Len(hashed) - 3]>>

\* C30: every store attempt, retries of a failed slot included, draws a new
\* key and IV, and in every emitted recovery file no two fragment
\* descriptors share a (key, iv, salt) triple or a fragmentId, the R copies
\* of one shard included.
C30_FreshSecrets ==
    /\ \A p \in StoreRequests : \A q \in StoreRequests :
          p # q => /\ AttemptSecrets(p) # AttemptSecrets(q)
                   /\ requests[p].body.fragmentId # requests[q].body.fragmentId
    /\ \A m \in 1..Len(mystFile) :
          \A a \in DescriptorsOf(mystFile[m]) : \A b \in DescriptorsOf(mystFile[m]) :
              a # b =>
                 /\ Secrets(DescriptorAt(mystFile[m], a)) #
                       Secrets(DescriptorAt(mystFile[m], b))
                 /\ DescriptorAt(mystFile[m], a).fragmentId #
                       DescriptorAt(mystFile[m], b).fragmentId

\* C30 witness: an upload with R = 2 in which a /store failed and was
\* retried has emitted a recovery file with two copies of each of its
\* shards.
C30_Witness ==
    /\ upc = "done"
    /\ options.redundancy = 2
    /\ FailedStores >= 1
    /\ Len(mystFile) = 1
    /\ Cardinality(DescriptorsOf(mystFile[1])) >= 4
    /\ Len(mystFile[1].partitions[1].fragments) = 2
    /\ mystFile[1].partitions[1].fragments[1].checksum.sha256 # <<>>

\* every shard of the upload has R recorded fragments, each one posted to
\* the node its descriptor names
EveryShardStored(u) ==
    /\ Len(u.recoveryMap) = Len(u.filePartitions)
    /\ Len(u.filePartitions) > 0
    /\ \A i \in 1..Len(u.recoveryMap) :
          /\ Len(u.recoveryMap[i].fragments) = options.redundancy
          /\ \A r \in 1..options.redundancy :
                \E q \in StoreRequests :
                    /\ requests[q].body.fragmentId =
                          u.recoveryMap[i].fragments[r].fragmentId
                    /\ requests[q].to = u.recoveryMap[i].fragments[r].nodeId

\* a step of the upload writes the recovery file only as its last step,
\* records a fragment only when its /store resolved, and writes nothing
\* while the upload has not ended well
ManifestLastStep ==
    /\ (mystFile' # mystFile) =>
          (/\ upc = "emit"
           /\ upc' = "done"
           /\ EveryShardStored(up)
           /\ up.totalEncryptions = Len(up.filePartitions) * options.redundancy
           /\ mystFile = <<>>
           /\ mystFile' = <<RecoveryFile(up, options, file, clock)>>)
    /\ (up'.totalEncryptions # up.totalEncryptions) =>
          (/\ Resolved(up'.response)
           /\ up'.totalEncryptions = up.totalEncryptions + 1)
    /\ (upc' # "done") => (mystFile' = <<>>)

C31_FailedPaths ==
    /\ upc = "failed"
    /\ up.error \in {"ReadError", "DirectoryError", "InsufficientNodes"}
    /\ mystFile = <<>>

\* C32: with reedSolomon enabled the upload uses the smallest P with
\* 5P >= 2D parity shards, makes D + P shards and records the config
\* {D, P, D + P}; with it disabled it uses P = 0, makes D partitions and
\* records a null config.
C32_ParityCount ==
    /\ upc \in {"nodes", "ping", "store", "emit", "done"} =>
          /\ up.dataShards = options.partitions
          /\ IF options.reedSolomon
             THEN /\ 5 * up.parityShards >= 2 * options.partitions
                  /\ 5 * (up.parityShards - 1) < 2 * options.partitions
             ELSE up.parityShards = 0
          /\ Len(up.filePartitions) = options.partitions + up.parityShards
    /\ \A m \in 1..Len(mystFile) :
          /\ Len(mystFile[m].partitions) = options.partitions + up.parityShards
          /\ mystFile[m].reedSolomon = options.reedSolomon
          /\ mystFile[m].reedSolomonConfig =
                IF options.reedSolomon
                THEN [dataShards |-> options.partitions,
                      parityShards |-> up.parityShards,
                      totalShards |-> options.partitions + up.parityShards]
                ELSE NullConfig

\* C32 witness: an upload with D = 3 and reedSolomon enabled has written a
\* recovery file with 5 partitions and the config {3, 2, 5}.
C32_Witness ==
    /\ upc = "done"
    /\ options.reedSolomon
    /\ options.partitions = 3
    /\ Len(mystFile) = 1
    /\ Len(mystFile[1].partitions) = 5
    /\ mystFile[1].reedSolomonConfig =
          [dataShards |-> 3, parityShards |-> 2, totalShards |-> 5]

\* x times the polynomial X in GF(2^8) modulo the primitive polynomial 0x11D
TimesX(x) == IF 2 * x >= 256 THEN Xor(2 * x, 285) ELSE 2 * x

\* the product of a and b in GF(2^8), by shift and add, without the tables
RECURSIVE FieldProduct(_, _)
FieldProduct(a, b) ==
    IF b = 0 THEN 0
    ELSE Xor(IF b % 2 = 1 THEN a ELSE 0, FieldProduct(TimesX(a), b \div 2))

\* the n-th power of the generator X, by squaring
RECURSIVE GeneratorPower(_)
GeneratorPower(n) ==
    IF n = 0 THEN 1
    ELSE IF n % 2 = 1 THEN TimesX(GeneratorPower(n - 1))
    ELSE LET h == GeneratorPower(n \div 2) IN FieldProduct(h, h)

\* coef(p, i) = exp[((p + 1) * (i + 1)) mod 255]
Coef(p, i) == GeneratorPower(((p + 1) * (i + 1)) % 255)

\* byte j (from 1) of the zero-padded slice i (from 0) of the input
PaddedByte(data, i, j, S) ==
    IF i * S + j <= Len(data) THEN data[i * S + j] ELSE 0

\* the XOR over data shards 0..n-1 of FieldProduct(data[i][j], Coef(p, i))
RECURSIVE ParitySum(_, _, _, _, _)
ParitySum(data, p, j, S, n) ==
    IF n = 0 THEN 0
    ELSE Xor(ParitySum(data, p, j, S, n - 1),
             FieldProduct(PaddedByte(data, n - 1, j, S), Coef(p, n - 1)))

\* the coefficient the encoder reads from the exp table is Coef(p, i), also
\* where (p + 1) * (i + 1) passes 255
CoefficientsAgree ==
    \A p \in 0..16 : \A i \in 0..16 : getCoefficient(p, i) = Coef(p, i)

\* C33: byte j of parity shard p returned by encode is the XOR over the data
\* shards i of mul(data[i][j], coef(p, i)) in GF(2^8) with primitive
\* polynomial 0x11D, coef(p, i) = exp[((p + 1) * (i + 1)) mod 255], the data
\* shards being the zero-padded slices of the input.
C33_ParityFormula ==
    /\ CoefficientsAgree
    /\ rsPc \in {"encoded", "decoded"} =>
          LET S == CeilDiv(Len(rsData), rsD)
          IN  \A p \in 0..(rsP - 1) :
                 ~IsNull(rsShards[rsD + p + 1]) =>
                    /\ Len(rsShards[rsD + p + 1]) = S
                    /\ \A j \in 1..S :
                          rsShards[rsD + p + 1][j] = ParitySum(rsData, p, j, S, rsD)

\* C33 witness: three bytes were encoded into 2 data and 2 parity shards of
\* 2 bytes, the second data shard is zero-padded, and a parity byte mixes a
\* data byte above 1 with a coefficient above 1.
C33_Witness ==
    /\ rsPc = "encoded"
    /\ rsData = <<1, 142, 142>>
    /\ rsD = 2
    /\ rsP = 2
    /\ Len(rsShards) = 4
    /\ rsShards[2] = <<142, 0>>
    /\ ~IsNull(rsShards[4])
    /\ rsShards[4][1] = Xor(FieldProduct(1, 4), FieldProduct(142, 16))
    /\ rsShards[4][1] > 1

\* the shards encode returned, where they were not lost afterwards: D + P of
\* them, each of S = ceil(L / D) bytes, data shard i being the input bytes
\* from i * S on followed by zero bytes
EqualShards ==
    LET S == CeilDiv(Len(rsData), rsD)
    IN  /\ Len(rsShards) = rsD + rsP
        /\ \A k \in 1..Len(rsShards) :
              ~IsNull(rsShards[k]) => Len(rsShards[k]) = S
        /\ \A i \in 0..(rsD - 1) :
              ~IsNull(rsShards[i + 1]) =>
                 \A j \in 1..S : rsShards[i + 1][j] = PaddedByte(rsData, i, j, S)

\* C34: for every input of length L, every D >= 1 and P >= 0 (L = 0 and
\* L < D included) encode returns D + P shards of S = ceil(L / D) bytes each,
\* data shard i being input bytes [i * S, min((i + 1) * S, L)) followed by
\* zero bytes.
C34_EqualShardLength ==
    rsPc # "input" => (rsPc \in {"encoded", "decoded"} /\ EqualShards)

\* every data shard is in the array handed to decode
DataPresent == \A i \in 1..rsD : ~IsNull(rsShards[i])

\* a parity shard in the array handed to decode is not as encoded
ParityAltered ==
    \E j \in (rsD + 1)..Len(rsShards) :
        ~IsNull(rsShards[j]) /\ rsShards[j] # encode(rsData, rsD, rsP)[j]

\* C35: a decode that succeeds on shards of S bytes returns D * S bytes;
\* with every data shard present it returns their concatenation in index
\* order whatever parity shards are present, null or altered; and the only
\* error decode raises, for any pattern of null positions, is
\* InsufficientShards.
C35_DecodeShape ==
    rsPc = "decoded" =>
        /\ rsResult.ok =>
              Len(rsResult.data) = rsD * CeilDiv(Len(rsData), rsD)
        /\ DataPresent =>
              /\ rsResult.ok
              /\ rsResult.data = BufferConcat(SubSeq(rsShards, 1, rsD))
              /\ rsResult.data = BufferConcat(SubSeq(encode(rsData, rsD, rsP), 1, rsD))
        /\ ~rsResult.ok =>
              /\ rsResult.error = "InsufficientShards"
              /\ Len(AvailableShards(rsShards)) < rsD
              /\ ~DataPresent

\* C35 witness: decode returned the three data shards of a 3-byte input, one
\* parity shard being null and the other altered.
C35_Witness ==
    /\ rsPc = "decoded"
    /\ rsD = 3
    /\ rsP = 2
    /\ Len(rsData) = 3
    /\ DataPresent
    /\ IsNull(rsShards[4])
    /\ ParityAltered
    /\ rsResult.ok
    /\ rsResult.data = rsData

\* C35 recovery case reached: decode succeeded with a data shard missing.
C35_Recovered ==
    /\ rsPc = "decoded"
    /\ ~DataPresent
    /\ rsResult.ok
    /\ rsD >= 2

\* bytes [from, to) of a buffer, counting from 0; empty when to <= from
Bytes(buffer, from, to) ==
    [k \in 1..(IF to > from THEN to - from ELSE 0) |-> buffer[from + k]]

\* the lengths of the slices
SliceSizes == [i \in 1..Len(rsShards) |-> Len(rsShards[i])]

\* C36: splitFile returns exactly N slices, slice i being bytes
\* [i * chunk, min((i + 1) * chunk, len)) with chunk = ceil(len / N), empty
\* when i * chunk >= len; mergePartitions of the slices is the buffer; 11
\* bytes with N = 4 give the sizes 3, 3, 3, 2.
C36_SplitMergeRoundTrip ==
    LET len == Len(rsData)
        chunk == CeilDiv(len, rsD)
    IN  /\ rsPc \in {"split", "merged"} =>
              /\ Len(rsShards) = rsD
              /\ \A i \in 0..(rsD - 1) :
                    /\ rsShards[i + 1] =
                          Bytes(rsData, i * chunk, Min((i + 1) * chunk, len))
                    /\ i * chunk >= len => rsShards[i + 1] = <<>>
              /\ (len = 11 /\ rsD = 4) => SliceSizes = <<3, 3, 3, 2>>
        /\ rsPc = "merged" =>
              /\ rsResult.ok
              /\ rsResult.data = rsData

\* C36 witness: 11 bytes were split into 4 slices of 3, 3, 3 and 2 bytes and
\* merged again.
C36_Witness ==
    /\ rsPc = "merged"
    /\ Len(rsData) = 11
    /\ rsD = 4
    /\ SliceSizes = <<3, 3, 3, 2>>
    /\ rsShards[4] = <<10, 11>>
    /\ rsResult.data = rsData

\* C36 empty slices reached: 4 bytes were split into 5 slices, the last
\* of them empty, and merged again.
C36_EmptySlices ==
    /\ rsPc = "merged"
    /\ Len(rsData) = 4
    /\ rsD = 5
    /\ SliceSizes = <<1, 1, 1, 1, 0>>

\* the bytes
Byte == 0..(GF_SIZE - 1)

\* the indices of the exp table
ExpIndex == 0..(GF_SIZE * 2 - 1)

\* the identities over every pair of bytes, and the table indices multiply
\* and divide use
FieldIdentities ==
    \A a \in Byte :
        /\ multiply(a, 1) = a
        /\ multiply(a, 0) = 0
        /\ multiply(0, a) = 0
        /\ \A b \in Byte :
              /\ multiply(a, b) = multiply(b, a)
              /\ multiply(a, b) \in Byte
              /\ b # 0 => divide(multiply(a, b), b) = a
              /\ (a # 0 /\ b # 0) =>
                    /\ logTable(a) + logTable(b) \in ExpIndex
                    /\ logTable(a) - logTable(b) + (GF_SIZE - 1) \in ExpIndex

\* C37: with the tables of initializeTables, for all bytes a and b:
\* multiply(a, 1) = a, multiply(a, 0) = multiply(0, a) = 0, multiply is
\* commutative, divide(multiply(a, b), b) = a for b # 0, and every index
\* multiply and divide use lies inside the exp table.
C37_FieldIdentities ==
    /\ FieldIdentities
    /\ rsPc \in {"multiplied", "divided"} =>
          /\ rsShards[1][1] = multiply(rsData[2], rsData[1])
          /\ rsData[2] = 1 => rsShards[1][1] = rsData[1]
          /\ (rsData[1] = 0 \/ rsData[2] = 0) => rsShards[1][1] = 0
    /\ (rsPc = "divided" /\ rsData[2] # 0) =>
          /\ rsResult.ok
          /\ rsResult.data = <<rsData[1]>>

\* C37 witness: 142 was multiplied by 255, through table index
\* log 142 + log 255 above 254, and the product divided by 255 is 142.
C37_Witness ==
    /\ rsPc = "divided"
    /\ rsData = <<142, 255>>
    /\ logTable(142) + logTable(255) > GF_SIZE - 2
    /\ rsShards[1][1] \notin {0, 142, 255}
    /\ rsResult.data = <<142>>

\* the sum of the sizes recorded in the fragment table
RECURSIVE TableSize(_)
TableSize(fragments) ==
    IF fragments = {} THEN 0
    ELSE LET f == CHOOSE g \in fragments : TRUE
         IN  (IF f.size = Null THEN 0 ELSE f.size) + TableSize(fragments \ {f})

\* C38: in every reachable state of a storage node, after any sequence of
\* /store requests (accepted, rejected, repeated for an id already held) and
\* restarts, the used-space counter is the sum of the sizes recorded in the
\* fragment table, which is the total size of the fragment files on disk.
C38_UsedSpaceAccounting ==
    /\ \A f \in ThisNode.fragments : f.size # Null
    /\ ThisNode.usedSpace = TableSize(ThisNode.fragments)
    /\ TableSize(ThisNode.fragments) = TotalSize(ThisNode.files)

\* the descriptors at two different places of a recovery file name
\* different nodes
OnDifferentNodes(recoveryData, a, b) ==
    /\ DescriptorAt(recoveryData, a).nodeId # DescriptorAt(recoveryData, b).nodeId
    /\ DescriptorAt(recoveryData, a).nodeAddress #
          DescriptorAt(recoveryData, b).nodeAddress

\* C39: the directory's nodes being pairwise distinct, in every recovery
\* file the R descriptors of one partition name R pairwise distinct nodes,
\* whatever store attempts failed and were retried; when no attempt failed,
\* all fragments of the upload are on pairwise distinct nodes.
C39_ReplicasOnDifferentNodes ==
    \A m \in 1..Len(mystFile) :
        /\ \A i \in 1..Len(mystFile[m].partitions) :
              Len(mystFile[m].partitions[i].fragments) = options.redundancy
        /\ \A a \in DescriptorsOf(mystFile[m]) : \A b \in DescriptorsOf(mystFile[m]) :
              (a # b /\ (a[1] = b[1] \/ FailedStores = 0)) =>
                  OnDifferentNodes(mystFile[m], a, b)

\* C39 witness: an upload with R = 2 in which a /store failed and was
\* retried has ended, and the two copies of its first shard are on two
\* different nodes.
C39_Witness ==
    /\ upc = "done"
    /\ Len(mystFile) = 1
    /\ options.redundancy = 2
    /\ FailedStores >= 1
    /\ Len(mystFile[1].partitions[1].fragments) = 2
    /\ OnDifferentNodes(mystFile[1], <<1, 1>>, <<1, 2>>)
    /\ \A k \in 1..Len(up.availableNodes) : \A l \in 1..Len(up.availableNodes) :
          k # l => up.availableNodes[k].id # up.availableNodes[l].id

\* what the tasks return when they run one after the other in partition
\* order against the nodes as they are
FetchedInOrder ==
    downloadFragmentsWithRetry(Manifest.partitions,
                               [nodes |-> nodes, requests |-> <<>>]).results

\* C40: whatever the interleaving and the order in which the per-partition
\* tasks settle, position i of the array downloadFragmentsWithRetry returns
\* holds the result (a verified copy or null) of manifest partition i, and
\* what downloadFile reconstructs is what the manifest and the nodes'
\* answers determine.
C40_FetchOrderIndependent ==
    (dpc \in {"process", "save", "done", "failed"} /\ dl.tasks # <<>>) =>
        /\ Len(dl.downloaded) = Len(Manifest.partitions)
        /\ dl.downloaded = FetchedInOrder
        /\ \A i \in 1..Len(dl.downloaded) :
              /\ dl.downloaded[i] = dl.tasks[i].result
              /\ dl.downloaded[i].present =>
                    /\ dl.downloaded[i].index = i - 1
                    /\ \E k \in 1..Len(Manifest.partitions[i].fragments) :
                          dl.downloaded[i].fragment = Manifest.partitions[i].fragments[k]
        /\ dpc \in {"save", "done", "failed"} =>
              LET res == ProcessDownload(Manifest, FetchedInOrder, dl.masterPassword)
              IN  /\ dl.originalFile = res.originalFile
                  /\ dl.error = res.error
        /\ dpc = "done" => output = <<dl.originalFile>>

\* C40 witness: the task of the second partition settled before the task
\* of the first, which had to ask for its second copy, and the download
\* has written the uploaded file.
C40_Witness ==
    /\ dpc = "done"
    /\ Len(dl.tasks) >= 2
    /\ dl.settled[1] = 2
    /\ dl.tasks[1].k = 2
    /\ dl.downloaded[1].present
    /\ dl.downloaded[1].index = 0
    /\ dl.downloaded[2].index = 1
    /\ output = <<file>>

====
